---- MODULE Spec2Model ----
(***************************************************************************)
(* Model of the recipe video processor: the tiered download state machine *)
(* of VideoDownloader (src/src/downloader.py), the CookiesManager          *)
(* (src/src/cookies_manager.py) and the pipeline entry point               *)
(* analyze_recipe_from_url (src/src/pipeline.py).                          *)
(*                                                                         *)
(* Text is modelled as a sequence of word tokens; the substring test `in`  *)
(* of Python is the contiguous-subsequence test Contains, and str.lower()  *)
(* maps every token to its lower-case form (LowerText).                    *)
(* Optional values are None == <<>> or Some(x) == <<x>>.                   *)
(***************************************************************************)
EXTENDS Integers, Sequences, FiniteSets, TLC

VARIABLES
    dpc,          \* position inside VideoDownloader.download
    durl,         \* the url argument of download()
    ydlCalls,     \* how many times _download_with_ydl was invoked
    lookups,      \* how many times get_cookies_file was entered
    fetches,      \* how many HTTP GETs the CookiesManager issued
    cookie_file,  \* the credential file of the open `with` scope
    last,         \* the last _download_with_ydl call: its arguments, the tool's outcome, what it returned or raised
    dresult,      \* what download() returned
    derr,         \* what download() raised
    ppc,          \* position inside analyze_recipe_from_url
    args,         \* the arguments of analyze_recipe_from_url
    temp_dir,     \* the workspace path held by the run
    tempExists,   \* whether the workspace directory exists on disk
    loc,          \* the local variables of analyze_recipe_from_url
    calls,        \* how often each collaborator was invoked by the run
    pending,      \* the exception propagating towards the finally block
    outcome,      \* what analyze_recipe_from_url returned or raised
    rot,          \* one APIKeyRotator: its keys and its index
    hist,         \* the keys get_next has handed out, in the order of the returns
    th,           \* the callers of get_next: position and locals of each
    mgr,          \* the LLMProviderManager: configuration, rotators, provider chain
    an,           \* one analyze_frames call: attempts, provider invocations, result
    pj,           \* one response text on its way through the parser and the validator
    ck,           \* one use of CookiesManager.get_cookies_file: the file, the scope, the exit
    fx,           \* one call of the frame planner, the key-frame selector or a frame sampler
    host          \* the event loop of the service: its tasks and the requests it has taken up

dvars == <<dpc, durl, ydlCalls, lookups, fetches, cookie_file, last, dresult, derr>>
pvars == <<ppc, args, temp_dir, tempExists, loc, calls, pending, outcome>>
xvars == <<rot, hist, th, mgr, an, pj, ck, fx, host>>
vars == <<dpc, durl, ydlCalls, lookups, fetches, cookie_file, last, dresult, derr,
          ppc, args, temp_dir, tempExists, loc, calls, pending, outcome,
          rot, hist, th, mgr, an, pj, ck, fx, host>>

None == <<>>
Some(x) == <<x>>

\* ------------------------------------------------------------------ bounds

\* A tool error text is made of at most MaxPhrases phrases.
MaxPhrases == 2
\* The gallery tool leaves files named 1..MaxPhotos in the output directory.
MaxPhotos == 2
\* The frame sampler returns at most MaxFrames frames.
MaxFrames == 2

\* A key pool holds at most MaxKeys configured keys.
MaxKeys == 3
\* get_next is called at most MaxCalls times on one rotator.
MaxCalls == 5

\* The frame planner is given durations of at most MaxDuration seconds.
MaxDuration == 1300
\* The key-frame selector is given at most MaxListed frames and targets.
MaxListed == 30
\* analyze_thumbnail_quick is called at most MaxQuick times on an analyzer.
MaxQuick == 1
\* A sampled video lasts at most MaxSeconds seconds.
MaxSeconds == 4
\* A frame sampler is asked for at most MaxTarget frames.
MaxTarget == 3

\* The host is sent MaxRequests requests.
MaxRequests == 2
\* A poll of the active-mode worker returns the jobs 1..MaxJobs at most.
MaxJobs == 2
\* The metadata of a video lists at most MaxThumbs thumbnails.
MaxThumbs == 3

\* -------------------------------------------------------------------- text

\* str.lower() on one token.
LowerTok(t) ==
    CASE t = "Sign" -> "sign"
      [] t = "Login" -> "login"
      [] t = "Private" -> "private"
      [] t = "Video" -> "video"
      [] t = "Unsupported" -> "unsupported"
      [] t = "URL" -> "url"
      [] t = "Too" -> "too"
      [] t = "Many" -> "many"
      [] t = "Requests" -> "requests"
      [] t = "Rate" -> "rate"
      [] t = "Failed" -> "failed"
      [] t = "Download" -> "download"
      [] t = "No" -> "no"
      [] t = "Photo" -> "photo"
      [] t = "TikTok" -> "tiktok"
      [] t = "Authentication" -> "authentication"
      [] t = "Please" -> "please"
      [] t = "Cookies" -> "cookies"
      [] t = "Original" -> "original"
      [] t = "Invalid" -> "invalid"
      [] t = "[PERMANENT]" -> "[permanent]"
      [] t = "[RETRYABLE]" -> "[retryable]"
      [] t = "Gemini" -> "gemini"
      [] t = "GROK" -> "grok"
      [] t = "OpenAI" -> "openai"
      [] t = "YOUTUBE_COOKIES_SETUP.md" -> "youtube_cookies_setup.md"
      [] t = "HTTP://" -> "http://"
      [] t = "YouTube.com" -> "youtube.com"
      [] t = "HTTP" -> "http"
      [] OTHER -> t

\* str.lower()
LowerText(s) == [i \in DOMAIN s |-> LowerTok(s[i])]

\* Python's `pat in text` for strings.
Contains(text, pat) ==
    \E i \in 0..(Len(text) - Len(pat)) : SubSeq(text, i + 1, i + Len(pat)) = pat

\* any(keyword in text for keyword in keywords)
ContainsAny(text, keywords) ==
    \E k \in DOMAIN keywords : Contains(text, keywords[k])

\* ---------------------------------------------------------- PlatformResolver

DetectPlatform(url) ==
    LET url_lower == LowerText(url) IN
    IF Contains(url_lower, <<"youtube.com">>) \/ Contains(url_lower, <<"youtu.be">>)
    THEN "youtube"
    ELSE IF Contains(url_lower, <<"instagram.com">>)
    THEN "instagram"
    ELSE IF Contains(url_lower, <<"facebook.com">>) \/ Contains(url_lower, <<"fb.watch">>)
    THEN "facebook"
    ELSE "other"

\* not url or not url.startswith(('http://', 'https://'))
InvalidUrl(url) ==
    \/ url = <<>>
    \/ ~(url[1] \in {"http://", "https://"})

\* --------------------------------------------------------------- error texts

ValueError(msg) == [type |-> "ValueError", msg |-> msg]
Exception(msg) == [type |-> "Exception", msg |-> msg]
DownloadError(msg) == [type |-> "DownloadError", msg |-> msg]

MsgInvalidUrl(url) == <<"Invalid", "URL", ":">> \o url
MsgNoInfo(url) == <<"Failed", "to", "extract", "video", "info", "from">> \o url
MsgNoFile == <<"Download", "succeeded", "but", "file", "not", "found", ":", "video_id.mp4">>
MsgPermanent(e) == <<"[PERMANENT]", "Video", "cannot", "be", "downloaded", ":">> \o e
MsgRateLimit(e) == <<"[RETRYABLE]", "Rate", "limit", ":">> \o e
MsgLoginRequired(e) == <<"[RETRYABLE]", "Login", "required", ":">> \o e
MsgFailedDownload(e) == <<"Failed", "to", "download", "video", ":">> \o e
MsgFailedPhotos(e) == <<"Failed", "to", "download", "photos", ":">> \o e
MsgNoPhotos == <<"No", "photos", "downloaded", "from", "TikTok", "carousel">>
MsgPhotoTimeout == <<"Photo", "download", "timed", "out">>
MsgNoCookies(platform) ==
    <<"Authentication", "required", "but", "no", "cookies", "available", "for",
      platform, ".", "Please", "configure", "cookies", "following",
      "YOUTUBE_COOKIES_SETUP.md">>
MsgTier2Failed(e) ==
    <<"Failed", "to", "download", "even", "with", "cookies", ".",
      "Cookies", "may", "have", "expired", "or", "video", "is", "unavailable", ".",
      "Original", "error", ":">> \o e

\* ------------------------------------------------------ DownloadResult

DownloadResult(video_path, thumbnail_url, photo_paths) ==
    [video_path |-> video_path, thumbnail_url |-> thumbnail_url, photo_paths |-> photo_paths]

is_video(r) == r.video_path # None

is_photo_carousel(r) == r.photo_paths # None /\ Len(r.photo_paths[1]) > 0

Return(v) == [tag |-> "return", value |-> v]
Raise(e) == [tag |-> "raise", value |-> e]

\* ------------------------------------------------------------- thumbnails

R2Url(what) == [store |-> "r2", what |-> what]
LocalPath(p) == [store |-> "local", path |-> p]

\* What the thumbnail collaborators do in one download: the metadata carries a
\* candidate or not, proxying it succeeds or not, the ffmpeg frame at 1 s is
\* extracted or not, its upload succeeds or not.
ThumbEnvs ==
    [source : BOOLEAN, proxy_ok : BOOLEAN, extract_ok : BOOLEAN, upload_ok : BOOLEAN]

NoThumbEnv == [source |-> FALSE, proxy_ok |-> FALSE, extract_ok |-> FALSE, upload_ok |-> FALSE]

\* The url of the selected candidate as the source gave it.
SourceUrl == [store |-> "cdn", what |-> "source"]

\* _extract_and_upload_thumbnail(video_path): the frame at 1 s, uploaded; None
\* when the extraction or the upload failed.
ExtractAndUploadThumbnail(t) ==
    IF t.extract_ok /\ t.upload_ok THEN Some(R2Url("frame")) ELSE None

\* Faulty variant of ProcessThumbnail: the video path is not used, so that a
\* failed proxying gives back the url of the source.
ProcessThumbnail_NoVideoPath(t, video_path) ==
    IF ~t.source
    THEN None
    ELSE IF t.proxy_ok
         THEN Some(R2Url("source"))
         ELSE Some(SourceUrl)

\* _process_thumbnail(info, video_path)
ProcessThumbnail(t, video_path) ==
    IF ~t.source
    THEN IF video_path # None THEN ExtractAndUploadThumbnail(t) ELSE None
    ELSE IF t.proxy_ok
         THEN Some(R2Url("source"))
         ELSE IF video_path # None
              THEN ExtractAndUploadThumbnail(t)
              ELSE Some(SourceUrl)

\* The metadata yt-dlp may return, as far as thumbnails go: the thumbnails
\* member is absent, a value that is no list, or a list of at most MaxThumbs
\* entries, the k-th with the url k or without url and with a preference or
\* without; the thumbnail member is a url or absent.
ThumbnailInfos ==
    LET Entry(k) == [id : {k}, url : {None, Some(k)},
                     preference : {None, Some(-1), Some(0), Some(5)}]
        Lists == UNION {{<<>>},
                        {<<a>> : a \in Entry(1)},
                        {<<a, b>> : a \in Entry(1), b \in Entry(2)},
                        {<<a, b, c>> : a \in Entry(1), b \in Entry(2), c \in Entry(3)}}
    IN  [kind : {"list"}, items : {l \in Lists : Len(l) <= MaxThumbs},
         thumbnail : {None, Some(0)}]
        \cup [kind : {"absent", "other"}, items : {<<>>}, thumbnail : {None, Some(0)}]

\* Faulty variant of SortedThumbnails: among equal keys the later entry is put
\* first.
SortedThumbnails_LastFirst(thumbnails) ==
    LET key(t) == IF t.preference = None THEN 0 ELSE t.preference[1]
        sorted[n \in 0..Len(thumbnails)] ==
            IF n = 0 THEN <<>>
            ELSE LET t == thumbnails[n]
                     before == SelectSeq(sorted[n - 1], LAMBDA u : key(u) > key(t))
                     after == SelectSeq(sorted[n - 1], LAMBDA u : key(u) <= key(t))
                 IN  before \o <<t>> \o after
    IN  sorted[Len(thumbnails)]

\* sorted(thumbnails, key=lambda t: t.get('preference', 0), reverse=True): a
\* stable sort, entries of equal key keep their order.
SortedThumbnails(thumbnails) ==
    LET key(t) == IF t.preference = None THEN 0 ELSE t.preference[1]
        sorted[n \in 0..Len(thumbnails)] ==
            IF n = 0 THEN <<>>
            ELSE LET t == thumbnails[n]
                     before == SelectSeq(sorted[n - 1], LAMBDA u : key(u) >= key(t))
                     after == SelectSeq(sorted[n - 1], LAMBDA u : key(u) < key(t))
                 IN  before \o <<t>> \o after
    IN  sorted[Len(thumbnails)]

\* VideoDownloader._select_best_thumbnail
SelectBestThumbnail(info) ==
    IF info.kind = "list" /\ Len(info.items) > 0
    THEN SortedThumbnails(info.items)[1].url
    ELSE info.thumbnail

\* ---------------------------------------------------- secondary gallery tool

GalleryExts == <<"jpg", "jpeg", "png", "webp">>

\* The extensions of the files the gallery tool may leave behind (mp3: the
\* audio track of a carousel, which no glob pattern matches).
FileExts == {"jpg", "png", "mp3"}

\* The files the gallery tool may leave behind: up to MaxPhotos jpg images, one
\* png image and one audio file.
Files ==
    {f \in [name : 1..MaxPhotos, ext : FileExts] : f.ext = "jpg" \/ f.name = 1}

\* Alphabetical rank of an extension inside a path string.
ExtRank(e) ==
    CASE e = "jpeg" -> 1 [] e = "jpg" -> 2 [] e = "mp3" -> 3 [] e = "png" -> 4 [] OTHER -> 5

\* Path.__lt__ on two paths of the output directory.
PathLess(p, q) ==
    \/ p.name < q.name
    \/ p.name = q.name /\ ExtRank(p.ext) < ExtRank(q.ext)

\* The orders a set of files can be listed in.
Orders(S) ==
    {s \in [1..Cardinality(S) -> S] : \A i, j \in DOMAIN s : i # j => s[i] # s[j]}

RECURSIVE Listings(_, _)
\* The listings of a directory holding the files found. The order is the file
\* system's; a glob pattern sees only the relative order of the files of its
\* extension, so every order of the files of each extension is listed, one
\* extension after the other.
Listings(found, exts) ==
    IF exts = {} THEN {<<>>}
    ELSE LET e == CHOOSE x \in exts : TRUE IN
         {a \o b : a \in Orders({f \in found : f.ext = e}),
                   b \in Listings(found, exts \ {e})}

\* Path(output_dir).rglob('*.' + ext): the files of the extension, in the
\* order the directory lists them.
RGlob(listing, ext) == SelectSeq(listing, LAMBDA f : f.ext = ext)

RECURSIVE GlobAll(_, _)
\* for ext in [...]: photo_paths.extend(Path(self.output_dir).rglob(ext))
GlobAll(listing, k) ==
    IF k > Len(GalleryExts) THEN <<>>
    ELSE RGlob(listing, GalleryExts[k]) \o GlobAll(listing, k + 1)

RECURSIVE InsertPath(_, _)
InsertPath(p, s) ==
    IF s = <<>> THEN <<p>>
    ELSE IF PathLess(p, Head(s)) THEN <<p>> \o s
    ELSE <<Head(s)>> \o InsertPath(p, Tail(s))

RECURSIVE SortedPaths(_)
\* sorted(photo_paths)
SortedPaths(s) ==
    IF s = <<>> THEN <<>> ELSE InsertPath(Head(s), SortedPaths(Tail(s)))

GalleryStderrs == {<<"HTTP", "403">>, <<"Login", "required">>}

MsgOsError == <<"No", "such", "file", "gallery-dl">>

\* What one run of the gallery tool does: how it ends, the files it leaves in
\* the output directory and the order the directory lists them in.
GalleryEnvs ==
    {[kind |-> "timeout", rc |-> 0, stderr |-> <<>>, found |-> {}, listing |-> <<>>,
      upload_ok |-> FALSE],
     [kind |-> "oserror", rc |-> 0, stderr |-> <<>>, found |-> {}, listing |-> <<>>,
      upload_ok |-> FALSE]}
    \cup [kind : {"exit"}, rc : {1}, stderr : GalleryStderrs, found : {{}},
          listing : {<<>>}, upload_ok : {FALSE}]
    \cup UNION {[kind : {"exit"}, rc : {0, 4}, stderr : {<<>>}, found : {found},
                 listing : Listings(found, FileExts), upload_ok : BOOLEAN] :
                    found \in SUBSET Files}

NoGallery ==
    [kind |-> "none", rc |-> 0, stderr |-> <<>>, found |-> {}, listing |-> <<>>,
     upload_ok |-> FALSE]

UploadPhotoThumbnail(photo_path, upload_ok) ==
    IF upload_ok THEN R2Url("photo") ELSE LocalPath(photo_path)

\* Faulty variant of DownloadPhotosWithGalleryDl: the `if not photo_paths`
\* check is missing, so an empty download is returned as a result.
DownloadPhotosWithGalleryDl_NoEmptyCheck(g) ==
    IF g.kind = "timeout"
    THEN Raise(ValueError(MsgPhotoTimeout))
    ELSE IF g.kind = "oserror"
    THEN Raise(ValueError(MsgFailedPhotos(MsgOsError)))
    ELSE IF ~(g.rc \in {0, 4})
    THEN Raise(ValueError(MsgFailedPhotos(MsgFailedPhotos(g.stderr))))
    ELSE LET photo_path_strs == SortedPaths(GlobAll(g.listing, 1)) IN
         Return(DownloadResult(
             None,
             IF photo_path_strs = <<>> THEN None
             ELSE Some(UploadPhotoThumbnail(photo_path_strs[1], g.upload_ok)),
             Some(photo_path_strs)))

DownloadPhotosWithGalleryDl(g) ==
    IF g.kind = "timeout"
    THEN Raise(ValueError(MsgPhotoTimeout))
    ELSE IF g.kind = "oserror"
    THEN Raise(ValueError(MsgFailedPhotos(MsgOsError)))
    ELSE IF ~(g.rc \in {0, 4})
    THEN Raise(ValueError(MsgFailedPhotos(MsgFailedPhotos(g.stderr))))
    ELSE LET photo_paths == GlobAll(g.listing, 1) IN
         IF photo_paths = <<>>
         THEN Raise(ValueError(MsgFailedPhotos(MsgNoPhotos)))
         ELSE LET photo_path_strs == SortedPaths(photo_paths) IN
              Return(DownloadResult(
                  None,
                  Some(UploadPhotoThumbnail(photo_path_strs[1], g.upload_ok)),
                  Some(photo_path_strs)))

\* --------------------------------------------------- Acquirer: one attempt

\* Faulty variant of NeedsAuth: every Tier-1 failure is taken for an
\* authentication issue.
NeedsAuth_Always(error_msg) == TRUE

\* download(): the markers that make a Tier-1 failure an authentication issue.
AUTH_KEYWORDS ==
    << <<"sign", "in">>, <<"login", "required">>, <<"bot">>, <<"age-restricted">>,
       <<"private">>, <<"members-only">>, <<"not", "available">>,
       <<"cannot", "parse", "data">>,
       <<"unable", "to", "extract", "video", "url">> >>

NeedsAuth(error_msg) == ContainsAny(error_msg, AUTH_KEYWORDS)

PERMANENT_ERRORS ==
    << <<"video", "unavailable">>, <<"private", "video">>, <<"deleted">>,
       <<"copyright">>, <<"removed">>, <<"account", "terminated">>,
       <<"channel", "not", "found">>, <<"unsupported", "url">> >>

IsPhotoCarousel(error_msg) ==
    Contains(error_msg, <<"unsupported", "url">>) /\ Contains(error_msg, <<"photo">>)

IsPermanent(error_msg) == ContainsAny(error_msg, PERMANENT_ERRORS)

IsRateLimit(error_msg) ==
    Contains(error_msg, <<"rate-limit">>) \/ Contains(error_msg, <<"too", "many", "requests">>)

IsLoginRequired(error_msg) ==
    Contains(error_msg, <<"login", "required">>) \/ Contains(error_msg, <<"sign", "in">>)

\* Faulty variant of HandleDownloadError: the permanent patterns are tried
\* before the photo-carousel check.
HandleDownloadError_PermanentFirst(e, g) ==
    LET error_msg == LowerText(e) IN
    IF IsPermanent(error_msg)
    THEN Raise(ValueError(MsgPermanent(e)))
    ELSE IF IsPhotoCarousel(error_msg)
    THEN DownloadPhotosWithGalleryDl(g)
    ELSE IF IsRateLimit(error_msg)
    THEN Raise(ValueError(MsgRateLimit(e)))
    ELSE IF IsLoginRequired(error_msg)
    THEN Raise(ValueError(MsgLoginRequired(e)))
    ELSE Raise(ValueError(MsgFailedDownload(e)))

\* The `except yt_dlp.utils.DownloadError` handler of _download_with_ydl, for
\* the error text e and the gallery tool's behaviour g.
HandleDownloadError(e, g) ==
    LET error_msg == LowerText(e) IN
    IF IsPhotoCarousel(error_msg)
    THEN DownloadPhotosWithGalleryDl(g)
    ELSE IF IsPermanent(error_msg)
    THEN Raise(ValueError(MsgPermanent(e)))
    ELSE IF IsRateLimit(error_msg)
    THEN Raise(ValueError(MsgRateLimit(e)))
    ELSE IF IsLoginRequired(error_msg)
    THEN Raise(ValueError(MsgLoginRequired(e)))
    ELSE Raise(ValueError(MsgFailedDownload(e)))

\* ydl_opts as far as the arguments decide them.
YdlOpts(url, cookie) ==
    [android_client |-> DetectPlatform(url) = "youtube", cookiefile |-> cookie]

\* _download_with_ydl(url, filename_prefix, cookie_file) when the acquisition
\* tool behaves as `tool` says.
DownloadWithYdl(url, cookie, tool) ==
    CASE tool.kind = "ok" ->
           LET video_path == Some("video_id.mp4") IN
           Return(DownloadResult(video_path, ProcessThumbnail(tool.thumb, video_path), None))
      [] tool.kind = "noinfo" -> Raise(ValueError(MsgNoInfo(url)))
      [] tool.kind = "nofile" -> Raise(Exception(MsgNoFile))
      [] tool.kind = "DownloadError" -> HandleDownloadError(tool.text, tool.gallery)
      [] OTHER -> Raise(Exception(tool.text))

\* ------------------------------------------------------------------ inputs

\* The phrases an acquisition-tool error text is made of.
Phrases ==
    << <<"Sign", "in">>, <<"login", "required">>, <<"bot">>, <<"Private", "video">>,
       <<"not", "available">>, <<"Video", "unavailable">>, <<"copyright">>,
       <<"deleted">>, <<"Unsupported", "URL">>, <<"photo">>, <<"rate-limit">>,
       <<"Too", "Many", "Requests">>, <<"timed", "out">> >>

\* The phrases chosen by the index set S, one after the other.
RECURSIVE JoinPhrases(_, _)
JoinPhrases(S, i) ==
    IF i > Len(Phrases) THEN <<>>
    ELSE (IF i \in S THEN Phrases[i] ELSE <<>>) \o JoinPhrases(S, i + 1)

\* The texts made of at most n different phrases. The code only asks whether a
\* text holds a phrase, so one order per choice of phrases is enumerated.
PhraseTexts(n) ==
    {JoinPhrases(S, 1) : S \in {T \in SUBSET DOMAIN Phrases : Cardinality(T) <= n}}

\* The error texts of a standalone download() call.
ToolTexts == PhraseTexts(MaxPhrases)

\* The texts of exceptions other than DownloadError.
OtherTexts == {<<"connection", "reset">>, <<"bot", "check", "failed">>}

\* The error texts for which the gallery tool's behaviour is enumerated: those
\* that name both a photo and an unsupported URL. For every other text the
\* gallery tool is never started and its behaviour is left out.
MentionsPhoto(text) ==
    /\ \E i \in DOMAIN text : text[i] \in {"photo", "Photo"}
    /\ \E i \in DOMAIN text : text[i] \in {"unsupported", "Unsupported"}

\* Everything one invocation of the acquisition tool may do, its error text
\* taken from `texts`; the gallery tool's behaviour is part of it.
ToolOutcomes(texts) ==
    [kind : {"ok"}, text : {<<>>}, thumb : ThumbEnvs, gallery : {NoGallery}]
    \cup [kind : {"noinfo", "nofile"}, text : {<<>>}, thumb : {NoThumbEnv}, gallery : {NoGallery}]
    \cup [kind : {"other"}, text : OtherTexts, thumb : {NoThumbEnv}, gallery : {NoGallery}]
    \cup {[kind |-> "DownloadError", text |-> t, thumb |-> NoThumbEnv, gallery |-> g] :
            t \in {x \in texts : ~MentionsPhoto(x)}, g \in {NoGallery}}
    \cup {[kind |-> "DownloadError", text |-> t, thumb |-> NoThumbEnv, gallery |-> g] :
            t \in {x \in texts : MentionsPhoto(x)}, g \in GalleryEnvs}

Urls ==
    { <<"https://", "www.", "youtube.com", "/watch">>,
      <<"https://", "www.", "instagram.com", "/reel">>,
      <<"http://", "fb.watch", "/v">>,
      <<"https://", "vt.", "tiktok.com", "/photo">>,
      <<"HTTP://", "YouTube.com", "/watch">>,
      <<"youtube.com", "/watch">>,
      <<>> }

NoCall == [cookie |-> None, opts |-> YdlOpts(<<>>, None),
           tool |-> [kind |-> "none", text |-> <<>>, thumb |-> NoThumbEnv, gallery |-> NoGallery],
           ret |-> [tag |-> "none"]]

\* ----------------------------------------------------------- CredentialStore

cookies_mapping == {"instagram", "youtube"}

\* get_cookies_file(platform) up to its yield: the temporary file, or None when
\* the platform has no mapped file or the fetch failed.
GetCookiesFile(platform, fetch_ok) ==
    IF ~(platform \in cookies_mapping) THEN None
    ELSE IF fetch_ok THEN Some("cookies.txt") ELSE None

\* ------------------------------------------------- Acquirer: download()

\* Faulty variant of CookieMissing: the attempt with cookies is made whether
\* or not a cookie file was obtained.
CookieMissing_Never(file) == FALSE

\* Faulty variant of AfterTier1: after a failure that asks for authentication
\* the second attempt is made at once, without a cookie lookup.
AfterTier1_SkipLookup(ret) ==
    IF ret.tag = "return" THEN "returned"
    ELSE IF ~NeedsAuth(LowerText(ret.value.msg)) THEN "raised"
    ELSE "tier2"

\* Faulty variant of Tier2Error: the second failure is passed on as it is.
Tier2Error_Unwrapped(e) == e

\* Faulty variant of AfterTier1: a Tier-1 success is not returned but taken on
\* to the cookie lookup.
AfterTier1_AlwaysLookup(ret) == "lookup"

\* `if not cookie_file` inside the with block.
CookieMissing(file) == file = None

\* The error raised when the attempt with cookies raised e.
Tier2Error(e) == ValueError(MsgTier2Failed(e.msg))

\* Where download() goes after the Tier-1 attempt returned or raised `ret`.
AfterTier1(ret) ==
    IF ret.tag = "return" THEN "returned"
    ELSE IF ~NeedsAuth(LowerText(ret.value.msg)) THEN "raised"
    ELSE "lookup"

\* download(url): the argument check.
DownloadEnter ==
    /\ dpc = "start"
    /\ IF InvalidUrl(durl)
       THEN /\ dpc' = "raised"
            /\ derr' = Some(ValueError(MsgInvalidUrl(durl)))
       ELSE /\ dpc' = "tier1"
            /\ derr' = derr
    /\ UNCHANGED <<durl, ydlCalls, lookups, fetches, cookie_file, last, dresult>>
    /\ UNCHANGED <<pvars, xvars>>

\* Tier 1: _download_with_ydl without cookies, and the except clause.
Tier1(texts) ==
    /\ dpc = "tier1"
    /\ \E tool \in ToolOutcomes(texts) :
         LET ret == DownloadWithYdl(durl, None, tool) IN
         /\ last' = [cookie |-> None, opts |-> YdlOpts(durl, None), tool |-> tool, ret |-> ret]
         /\ ydlCalls' = ydlCalls + 1
         /\ dpc' = AfterTier1(ret)
         /\ dresult' = IF AfterTier1(ret) = "returned" THEN Some(ret.value) ELSE dresult
         /\ derr' = IF AfterTier1(ret) = "raised" THEN Some(ret.value) ELSE derr
    /\ UNCHANGED <<durl, lookups, fetches, cookie_file>>
    /\ UNCHANGED <<pvars, xvars>>

\* Tier 2, entering `with self.cookies_manager.get_cookies_file(platform)`.
Tier2Lookup ==
    /\ dpc = "lookup"
    /\ \E fetch_ok \in BOOLEAN :
         LET platform == DetectPlatform(durl)
             file == GetCookiesFile(platform, fetch_ok) IN
         /\ lookups' = lookups + 1
         /\ fetches' = IF platform \in cookies_mapping THEN fetches + 1 ELSE fetches
         /\ IF CookieMissing(file)
            THEN /\ dpc' = "raised"
                 /\ derr' = Some(ValueError(MsgNoCookies(platform)))
                 /\ cookie_file' = None
            ELSE /\ dpc' = "tier2"
                 /\ derr' = derr
                 /\ cookie_file' = file
    /\ UNCHANGED <<durl, ydlCalls, last, dresult>>
    /\ UNCHANGED <<pvars, xvars>>

\* Tier 2: _download_with_ydl with the cookie file; the `with` scope ends and
\* the credential file is deleted.
Tier2(texts) ==
    /\ dpc = "tier2"
    /\ \E tool \in ToolOutcomes(texts) :
         LET ret == DownloadWithYdl(durl, cookie_file, tool) IN
         /\ last' = [cookie |-> cookie_file, opts |-> YdlOpts(durl, cookie_file),
                     tool |-> tool, ret |-> ret]
         /\ ydlCalls' = ydlCalls + 1
         /\ IF ret.tag = "return"
            THEN /\ dpc' = "returned"
                 /\ dresult' = Some(ret.value)
                 /\ derr' = derr
            ELSE /\ dpc' = "raised"
                 /\ derr' = Some(Tier2Error(ret.value))
                 /\ dresult' = dresult
    /\ cookie_file' = None
    /\ UNCHANGED <<durl, lookups, fetches>>
    /\ UNCHANGED <<pvars, xvars>>

\* -------------------------------------------------------- FrameBudgetPlanner

Min(a, b) == IF a < b THEN a ELSE b
Max(a, b) == IF a > b THEN a ELSE b

\* Faulty variant of calculate_optimal_frame_count: a tier includes its upper
\* limit.
calculate_optimal_frame_count_Inclusive(duration_seconds, mode) ==
    LET tier == IF duration_seconds <= 300 THEN 1
                ELSE IF duration_seconds <= 600 THEN 2
                ELSE IF duration_seconds <= 900 THEN 3 ELSE 4
    IN  CASE mode = "fast" -> <<8, 10, 12, 16>>[tier]
          [] mode = "accurate" ->
                <<15, 24, 36, Min(48, Max(36, duration_seconds \div 20))>>[tier]
          [] OTHER -> <<12, 18, 24, Min(36, Max(24, duration_seconds \div 30))>>[tier]

\* Faulty variant of calculate_optimal_frame_count: long videos are not capped.
calculate_optimal_frame_count_NoCap(duration_seconds, mode) ==
    IF duration_seconds < 900
    THEN (IF duration_seconds < 300 THEN (IF mode = "fast" THEN 8 ELSE IF mode = "accurate" THEN 15 ELSE 12)
          ELSE IF duration_seconds < 600 THEN (IF mode = "fast" THEN 10 ELSE IF mode = "accurate" THEN 24 ELSE 18)
          ELSE (IF mode = "fast" THEN 12 ELSE IF mode = "accurate" THEN 36 ELSE 24))
    ELSE (IF mode = "fast" THEN 16
          ELSE IF mode = "accurate" THEN Max(36, duration_seconds \div 20)
          ELSE Max(24, duration_seconds \div 30))

calculate_optimal_frame_count(duration_seconds, mode) ==
    IF mode = "fast"
    THEN (IF duration_seconds < 300 THEN 8
          ELSE IF duration_seconds < 600 THEN 10
          ELSE IF duration_seconds < 900 THEN 12
          ELSE 16)
    ELSE IF mode = "accurate"
    THEN (IF duration_seconds < 300 THEN 15
          ELSE IF duration_seconds < 600 THEN 24
          ELSE IF duration_seconds < 900 THEN 36
          ELSE Min(48, Max(36, duration_seconds \div 20)))
    ELSE (IF duration_seconds < 300 THEN 12
          ELSE IF duration_seconds < 600 THEN 18
          ELSE IF duration_seconds < 900 THEN 24
          ELSE Min(36, Max(24, duration_seconds \div 30)))

\* ------------------------------------------------------------ ResponseParser

\* JSON values as far as validation looks at them.
Str == [t |-> "str"]
List(n) == [t |-> "list", n |-> n]

\* The creative fallback of _parse_json_response.
FallbackRecipe ==
    [k \in {"name", "description", "ingredients", "steps", "servings",
            "prep_time", "cook_time", "tags"} |->
        CASE k = "ingredients" -> List(3)
          [] k = "steps" -> List(3)
          [] k = "tags" -> List(3)
          [] k \in {"servings", "prep_time", "cook_time"} -> [t |-> "int"]
          [] OTHER -> Str]

\* A decoded value as validation looks at it: its kind, the fields d of an
\* object, and the required field names that \`field in data\` finds in a value
\* that is no object, the items of a list or the parts of a string.
JsonDict(d) == [json |-> TRUE, kind |-> "dict", d |-> d, names |-> {}]

\* The decoded value of a model response: a JSON object, a JSON value that is no
\* object, or text that is no JSON.
ParseJsonResponse(resp) ==
    IF resp.json THEN [kind |-> resp.kind, d |-> resp.d, names |-> resp.names]
    ELSE [kind |-> "dict", d |-> FallbackRecipe, names |-> {}]

\* field in data: a key of an object, an item of a list, a part of a string.
HasField(data, field) ==
    IF data.kind = "dict" THEN field \in DOMAIN data.d ELSE field \in data.names

\* data[field] of a value that is no object and passed the membership checks.
IndexError(data) ==
    IF data.kind = "list"
    THEN [type |-> "TypeError",
          msg |-> <<"list", "indices", "must", "be", "integers", "or", "slices",
                    ",", "not", "str">>]
    ELSE [type |-> "TypeError",
          msg |-> <<"string", "indices", "must", "be", "integers", ",", "not",
                    "'str'">>]

\* Faulty variant of ValidateRecipeData: only the name is required.
ValidateRecipeData_NameOnly(data) ==
    IF data.kind \in {"number", "null"}
    THEN Some([type |-> "TypeError", msg |-> <<"not", "iterable">>])
    ELSE IF ~HasField(data, "name")
    THEN Some(ValueError(<<"Missing", "required", "field", ":", "name">>))
    ELSE None

\* Faulty variant of ValidateRecipeData: empty lists are rejected too.
ValidateRecipeData_RejectEmpty(data) ==
    IF data.kind \in {"number", "null"}
    THEN Some([type |-> "TypeError", msg |-> <<"not", "iterable">>])
    ELSE IF ~HasField(data, "name")
    THEN Some(ValueError(<<"Missing", "required", "field", ":", "name">>))
    ELSE IF ~HasField(data, "ingredients")
    THEN Some(ValueError(<<"Missing", "required", "field", ":", "ingredients">>))
    ELSE IF ~HasField(data, "steps")
    THEN Some(ValueError(<<"Missing", "required", "field", ":", "steps">>))
    ELSE IF data.kind # "dict" THEN Some(IndexError(data))
    ELSE IF data.d["ingredients"].t # "list" \/ data.d["ingredients"].v = <<>>
    THEN Some(ValueError(<<"ingredients", "must", "be", "a", "list">>))
    ELSE IF data.d["steps"].t # "list" \/ data.d["steps"].v = <<>>
    THEN Some(ValueError(<<"steps", "must", "be", "a", "list">>))
    ELSE None

\* _validate_recipe_data: None, or the error it raises. The three membership
\* checks come first, on any value that has the \`in\` operator; then
\* data['ingredients'] and data['steps'] are read, which a list or a string
\* refuses.
ValidateRecipeData(data) ==
    IF data.kind \in {"number", "null"} THEN Some([type |-> "TypeError", msg |-> <<"not", "iterable">>])
    ELSE IF ~HasField(data, "name")
    THEN Some(ValueError(<<"Missing", "required", "field", ":", "name">>))
    ELSE IF ~HasField(data, "ingredients")
    THEN Some(ValueError(<<"Missing", "required", "field", ":", "ingredients">>))
    ELSE IF ~HasField(data, "steps")
    THEN Some(ValueError(<<"Missing", "required", "field", ":", "steps">>))
    ELSE IF data.kind # "dict" THEN Some(IndexError(data))
    ELSE IF data.d["ingredients"].t # "list"
    THEN Some(ValueError(<<"ingredients", "must", "be", "a", "list">>))
    ELSE IF data.d["steps"].t # "list"
    THEN Some(ValueError(<<"steps", "must", "be", "a", "list">>))
    ELSE None

\* The model responses of a run.
Responses ==
    { JsonDict([k \in {"name", "ingredients", "steps"} |->
                   IF k = "name" THEN Str ELSE List(1)]),
      JsonDict([k \in {"name", "ingredients", "steps", "metadata"} |->
                   IF k \in {"name", "metadata"} THEN Str ELSE List(0)]),
      JsonDict([k \in {"ingredients", "steps"} |-> List(1)]),
      JsonDict([k \in {"name", "steps"} |-> IF k = "name" THEN Str ELSE List(1)]),
      JsonDict([k \in {"name", "ingredients"} |-> IF k = "name" THEN Str ELSE List(1)]),
      JsonDict([k \in {"name", "ingredients", "steps"} |->
                   IF k = "steps" THEN List(1) ELSE Str]),
      JsonDict([k \in {"name", "ingredients", "steps"} |->
                   IF k = "ingredients" THEN List(1) ELSE Str]),
      [json |-> TRUE, kind |-> "list", d |-> <<>>, names |-> {}],
      [json |-> TRUE, kind |-> "list", d |-> <<>>, names |-> {"name"}],
      [json |-> TRUE, kind |-> "list", d |-> <<>>,
       names |-> {"name", "ingredients", "steps"}],
      [json |-> TRUE, kind |-> "text", d |-> <<>>,
       names |-> {"name", "ingredients", "steps"}],
      [json |-> TRUE, kind |-> "number", d |-> <<>>, names |-> {}],
      [json |-> FALSE, kind |-> "text", d |-> <<>>, names |-> {}] }

\* ------------------------------------------------------------------ Pipeline

Frame(i) == [name |-> i, ext |-> "jpg"]

\* frame_0001.jpg .. frame_000n.jpg
FrameList(n) == [i \in 1..n |-> Frame(i)]

\* The error texts the acquisition tool gives inside a pipeline run.
PipelineTexts ==
    { <<"timed", "out">>, <<"Sign", "in">>, <<"Private", "video">>,
      <<"rate-limit">>, <<"Unsupported", "URL", "photo">> }

PipelineUrls ==
    { <<"https://", "www.", "youtube.com", "/watch">>,
      <<"https://", "vt.", "tiktok.com", "/photo">>,
      <<"youtube.com", "/watch">> }

\* The durations ffprobe or the stream metadata report.
Durations == {0, 185, 1200}

ArgsOf(urls, cleanups, counts, modes, streamings, strategies, contexts) ==
    [url : urls, cleanup : cleanups, frame_count : counts, extraction_mode : modes,
     use_streaming : streamings, frame_selection_strategy : strategies,
     previous_recipe_context : contexts]

Modes == {"fast", "balanced", "accurate"}
Strategies == {"uniform", "scene", "hybrid"}
Contexts == {None, Some("previous")}
FrameCounts == {None, Some(1)}

\* The calls of analyze_recipe_from_url: every combination of the arguments that
\* decide the control flow (with the defaults for the others), every combination
\* of the arguments that are only passed on (on a valid url), and every
\* combination of all arguments on a url that is not valid.
PipelineArgs ==
    ArgsOf(PipelineUrls, BOOLEAN, FrameCounts, {"balanced"}, BOOLEAN, {"scene"}, {None})
    \cup ArgsOf({<<"https://", "www.", "youtube.com", "/watch">>}, {TRUE}, {None},
                Modes, {FALSE}, Strategies, Contexts)
    \cup ArgsOf({<<"youtube.com", "/watch">>}, BOOLEAN, FrameCounts,
                Modes, BOOLEAN, Strategies, Contexts)

NoArgs ==
    [url |-> <<>>, cleanup |-> FALSE, frame_count |-> None, extraction_mode |-> "balanced",
     use_streaming |-> FALSE, frame_selection_strategy |-> "scene",
     previous_recipe_context |-> None]

\* The locals of analyze_recipe_from_url before its first statement.
InitLocals(a) ==
    [use_streaming |-> a.use_streaming, frame_count |-> a.frame_count,
     video_path |-> None, thumbnail_url |-> None, photo_paths |-> None,
     all_frames |-> <<>>, video_duration |-> None, video_file_size |-> None,
     ret |-> None]

\* The collaborators' call counts of one run, with the strategy handed to
\* extract_key_frames and the frame list handed to the analyzer.
NoCalls == [ydl |-> 0, lookups |-> 0, streaming |-> 0, download |-> 0, probe |-> 0,
            plan |-> 0, extract |-> 0, vision |-> 0, rmtree |-> 0, rmtree_failed |-> 0,
            strategy |-> None, frames |-> <<>>]

IdleDownload ==
    /\ dpc = "idle" /\ durl = <<>> /\ ydlCalls = 0 /\ lookups = 0 /\ fetches = 0
    /\ cookie_file = None /\ last = NoCall /\ dresult = None /\ derr = None

IdlePipeline ==
    /\ ppc = "idle" /\ args = NoArgs /\ temp_dir = None /\ tempExists = FALSE
    /\ loc = InitLocals(NoArgs) /\ calls = NoCalls /\ pending = None
    /\ outcome = [tag |-> "none"]

\* Faulty variant of Envelope: the content type ignores the photo paths, so a
\* photo carousel is reported as a video.
Envelope_NoCarousel(recipe_data, usage_metadata, l) ==
    LET streamed == l.use_streaming /\ l.all_frames # <<>>
        content_type == IF streamed THEN "video_streaming" ELSE "video"
        metadata == [llm_usage |-> usage_metadata,
                     content_type |-> content_type,
                     extraction_method |-> IF streamed THEN "streaming" ELSE "download",
                     video_info |-> [duration_seconds |-> l.video_duration,
                                     file_size_bytes |-> l.video_file_size,
                                     frames_extracted |-> Len(l.all_frames),
                                     frames_analyzed |-> Len(l.all_frames)]]
    IN [k \in (DOMAIN recipe_data) \cup {"thumbnail_url", "metadata"} |->
          CASE k = "metadata" -> [t |-> "dict", meta |-> metadata]
            [] k = "thumbnail_url" -> [t |-> "url", url |-> l.thumbnail_url]
            [] OTHER -> recipe_data[k]]

\* The response envelope assembled at the end of the try block.
Envelope(recipe_data, usage_metadata, l) ==
    LET streamed == l.use_streaming /\ l.all_frames # <<>>
        content_type == IF streamed THEN "video_streaming"
                        ELSE IF l.photo_paths # None /\ l.photo_paths[1] # <<>>
                        THEN "photo_carousel"
                        ELSE "video"
        metadata == [llm_usage |-> usage_metadata,
                     content_type |-> content_type,
                     extraction_method |-> IF streamed THEN "streaming" ELSE "download",
                     video_info |-> [duration_seconds |-> l.video_duration,
                                     file_size_bytes |-> l.video_file_size,
                                     frames_extracted |-> Len(l.all_frames),
                                     frames_analyzed |-> Len(l.all_frames)]]
    IN [k \in (DOMAIN recipe_data) \cup {"thumbnail_url", "metadata"} |->
          CASE k = "metadata" -> [t |-> "dict", meta |-> metadata]
            [] k = "thumbnail_url" -> [t |-> "url", url |-> l.thumbnail_url]
            [] OTHER -> recipe_data[k]]

\* Stage 1: tempfile.mkdtemp.
PipelineStart ==
    /\ ppc = "start"
    /\ \E mk_ok \in BOOLEAN :
         IF mk_ok
         THEN /\ temp_dir' = Some("recipeai_pipeline_x")
              /\ tempExists' = TRUE
              /\ ppc' = IF loc.use_streaming THEN "streaming" ELSE "download"
              /\ pending' = pending
         ELSE /\ temp_dir' = temp_dir
              /\ tempExists' = tempExists
              /\ ppc' = "finally"
              /\ pending' = Some([type |-> "OSError", msg |-> <<"mkdtemp", "failed">>])
    /\ UNCHANGED <<args, loc, calls, outcome>>
    /\ UNCHANGED <<dvars, xvars>>

\* The streaming fast path: metadata, frame budget, extraction from the stream.
PipelineStreaming ==
    /\ ppc = "streaming"
    /\ \E duration \in Durations, thumb \in {None, Some([store |-> "cdn", what |-> "metadata"])},
          step \in {"metadata_error", "extract_error", "size_error", "ok"},
          n \in 1..MaxFrames :
         LET planned == loc.frame_count = None /\ step # "metadata_error"
             fc == IF planned
                   THEN Some(calculate_optimal_frame_count(duration, args.extraction_mode))
                   ELSE loc.frame_count
             meta == [loc EXCEPT !.video_duration = Some(duration),
                                 !.thumbnail_url = thumb,
                                 !.frame_count = fc]
         IN
         /\ step = "metadata_error" => duration = 0 /\ thumb = None
         /\ step # "ok" => n = 1
         /\ (IF step = "metadata_error" THEN TRUE ELSE n <= fc[1])
         /\ calls' = [calls EXCEPT !.streaming = @ + 1,
                                   !.plan = IF planned THEN @ + 1 ELSE @]
         /\ CASE step = "metadata_error" ->
                   /\ loc' = [loc EXCEPT !.use_streaming = FALSE]
                   /\ ppc' = "download"
                   /\ pending' = pending
              [] step = "extract_error" ->
                   /\ loc' = [meta EXCEPT !.use_streaming = FALSE]
                   /\ ppc' = "download"
                   /\ pending' = pending
              [] step = "size_error" ->
                   /\ loc' = [meta EXCEPT !.all_frames = FrameList(n)]
                   /\ ppc' = "finally"
                   /\ pending' = Some([type |-> "OSError", msg |-> <<"getsize", "failed">>])
              [] OTHER ->
                   /\ loc' = [meta EXCEPT !.all_frames = FrameList(n),
                                          !.video_file_size = Some(1000 * n)]
                   /\ ppc' = "analyze"
                   /\ pending' = pending
    /\ UNCHANGED <<args, temp_dir, tempExists, outcome>>
    /\ UNCHANGED <<dvars, xvars>>

\* download_video(url, output_dir=temp_dir): a fresh VideoDownloader's download().
PipelineDownload ==
    /\ ppc = "download"
    /\ ppc' = "downloading"
    /\ dpc' = "start"
    /\ durl' = args.url
    /\ calls' = [calls EXCEPT !.download = @ + 1]
    /\ UNCHANGED <<ydlCalls, lookups, fetches, cookie_file, last, dresult, derr>>
    /\ UNCHANGED <<args, temp_dir, tempExists, loc, pending, outcome>>
    /\ UNCHANGED xvars

\* download_video has returned or raised: unpack the DownloadResult and branch
\* on photo carousel or video.
PipelineAfterDownload ==
    /\ ppc = "downloading"
    /\ dpc \in {"returned", "raised"}
    /\ \E size_ok \in BOOLEAN :
         IF dpc = "raised"
         THEN /\ size_ok
              /\ pending' = derr
              /\ ppc' = "finally"
              /\ loc' = loc
         ELSE LET r == dresult[1]
                  got == [loc EXCEPT !.video_path = r.video_path,
                                     !.thumbnail_url = r.thumbnail_url,
                                     !.photo_paths = r.photo_paths]
              IN
              IF r.photo_paths # None /\ r.photo_paths[1] # <<>>
              THEN IF size_ok
                   THEN /\ loc' = [got EXCEPT !.all_frames = r.photo_paths[1],
                                              !.video_file_size = Some(1000 * Len(r.photo_paths[1])),
                                              !.video_duration = Some(0)]
                        /\ ppc' = "analyze"
                        /\ pending' = pending
                   ELSE /\ loc' = [got EXCEPT !.all_frames = r.photo_paths[1]]
                        /\ ppc' = "finally"
                        /\ pending' = Some([type |-> "OSError", msg |-> <<"getsize", "failed">>])
              ELSE /\ size_ok
                   /\ loc' = got
                   /\ ppc' = "probe"
                   /\ pending' = pending
    /\ calls' = [calls EXCEPT !.ydl = @ + ydlCalls, !.lookups = @ + lookups]
    /\ dpc' = "idle" /\ durl' = <<>> /\ ydlCalls' = 0 /\ lookups' = 0 /\ fetches' = 0
    /\ cookie_file' = None /\ last' = NoCall /\ dresult' = None /\ derr' = None
    /\ UNCHANGED <<args, temp_dir, tempExists, outcome>>
    /\ UNCHANGED xvars

\* get_video_metadata(video_path) and the frame budget.
PipelineProbe ==
    /\ ppc = "probe"
    /\ \E probe_ok \in BOOLEAN, duration \in Durations :
         LET planned == loc.frame_count = None IN
         IF probe_ok
         THEN /\ loc' = [loc EXCEPT
                           !.video_duration = Some(duration),
                           !.video_file_size = Some(5000),
                           !.frame_count =
                               IF planned
                               THEN Some(calculate_optimal_frame_count(duration, args.extraction_mode))
                               ELSE @]
              /\ calls' = [calls EXCEPT !.probe = @ + 1,
                                        !.plan = IF planned THEN @ + 1 ELSE @]
              /\ ppc' = "extract"
              /\ pending' = pending
         ELSE /\ duration = 0
              /\ loc' = loc
              /\ calls' = [calls EXCEPT !.probe = @ + 1]
              /\ ppc' = "finally"
              /\ pending' = Some([type |-> "CalledProcessError", msg |-> <<"ffprobe", "failed">>])
    /\ UNCHANGED <<args, temp_dir, tempExists, outcome>>
    /\ UNCHANGED <<dvars, xvars>>

\* Faulty variant of PipelineExtract: the empty-frame-set check is missing and
\* the run goes on to the analysis with no frames.
PipelineExtract_NoEmptyCheck ==
    /\ ppc = "extract"
    /\ \E extract_ok \in BOOLEAN, n \in 0..MaxFrames :
         /\ n <= loc.frame_count[1]
         /\ calls' = [calls EXCEPT !.extract = @ + 1,
                                   !.strategy = Some(args.frame_selection_strategy)]
         /\ IF ~extract_ok
            THEN /\ n = 0
                 /\ loc' = loc
                 /\ ppc' = "finally"
                 /\ pending' = Some([type |-> "CalledProcessError", msg |-> <<"ffmpeg", "failed">>])
            ELSE /\ loc' = [loc EXCEPT !.all_frames = FrameList(n)]
                 /\ ppc' = "analyze"
                 /\ pending' = pending
    /\ UNCHANGED <<args, temp_dir, tempExists, outcome>>
    /\ UNCHANGED <<dvars, xvars>>

\* extract_key_frames(video_path, frames_dir, count, max_frames, strategy) and
\* the empty-frame-set check.
PipelineExtract ==
    /\ ppc = "extract"
    /\ \E extract_ok \in BOOLEAN, n \in 0..MaxFrames :
         /\ n <= loc.frame_count[1]
         /\ calls' = [calls EXCEPT !.extract = @ + 1,
                                   !.strategy = Some(args.frame_selection_strategy)]
         /\ IF ~extract_ok
            THEN /\ n = 0
                 /\ loc' = loc
                 /\ ppc' = "finally"
                 /\ pending' = Some([type |-> "CalledProcessError", msg |-> <<"ffmpeg", "failed">>])
            ELSE IF n = 0
            THEN /\ loc' = loc
                 /\ ppc' = "finally"
                 /\ pending' = Some(ValueError(<<"No", "frames", "extracted", "from", "video">>))
            ELSE /\ loc' = [loc EXCEPT !.all_frames = FrameList(n)]
                 /\ ppc' = "analyze"
                 /\ pending' = pending
    /\ UNCHANGED <<args, temp_dir, tempExists, outcome>>
    /\ UNCHANGED <<dvars, xvars>>

\* analyze_recipe_from_frames(all_frames, thumbnail_url, ...) and the assembly
\* of the envelope.
PipelineAnalyze ==
    /\ ppc = "analyze"
    /\ \E step \in {"init_error", "load_error", "api_error", "ok"}, resp \in Responses,
          provider \in {"gemini", "grok", "openai"} :
         /\ step # "ok" => resp = [json |-> FALSE, kind |-> "text", d |-> <<>>, names |-> {}] /\ provider = "gemini"
         /\ calls' = [calls EXCEPT !.vision = IF step \in {"api_error", "ok"} THEN @ + 1 ELSE @,
                                   !.frames = IF step \in {"api_error", "ok"}
                                              THEN loc.all_frames ELSE @]
         /\ ppc' = "finally"
         /\ IF step # "ok"
            THEN /\ pending' = Some([type |-> IF step = "api_error" THEN "Exception" ELSE "ValueError",
                                     msg |-> <<step>>])
                 /\ loc' = loc
            ELSE LET recipe_data == ParseJsonResponse(resp)
                     invalid == ValidateRecipeData(recipe_data)
                     usage_metadata == [provider |-> provider, total_tokens |-> 0]
                 IN
                 IF invalid # None
                 THEN /\ pending' = invalid
                      /\ loc' = loc
                 ELSE /\ pending' = pending
                      /\ loc' = [loc EXCEPT !.ret = Some(Envelope(recipe_data.d, usage_metadata, loc))]
    /\ UNCHANGED <<args, temp_dir, tempExists, outcome>>
    /\ UNCHANGED <<dvars, xvars>>

\* Faulty variant of WillCleanup: the workspace is removed only when the run
\* succeeded.
WillCleanup_OnSuccess == args.cleanup /\ temp_dir # None /\ tempExists /\ pending = None

\* Whether the finally block calls shutil.rmtree.
WillCleanup == args.cleanup /\ temp_dir # None /\ tempExists

\* What the caller gets once the finally block is through.
Propagate(p, r) == IF p # None THEN Raise(p[1]) ELSE Return(r[1])

\* The except clause (log and re-raise) and the finally block; rmtree may itself
\* fail, which is logged and swallowed.
PipelineFinally ==
    /\ ppc = "finally"
    /\ \E rm_ok \in BOOLEAN :
         IF WillCleanup
         THEN /\ tempExists' = ~rm_ok
              /\ calls' = [calls EXCEPT !.rmtree = @ + 1,
                                        !.rmtree_failed = IF rm_ok THEN @ ELSE @ + 1]
         ELSE /\ rm_ok
              /\ tempExists' = tempExists
              /\ calls' = calls
    /\ outcome' = Propagate(pending, loc.ret)
    /\ ppc' = "done"
    /\ UNCHANGED <<args, temp_dir, loc, pending>>
    /\ UNCHANGED <<dvars, xvars>>

\* ------------------------------------------------------------ APIKeyRotator

\* str.isspace() on one token.
IsSpace(t) == t \in {" ", "\t", "\n"}

\* str.strip(): from the first to the last token that is no whitespace.
Strip(s) ==
    LET solid == {i \in 1..Len(s) : ~IsSpace(s[i])}
        first == CHOOSE i \in solid : \A j \in solid : i <= j
        last_solid == CHOOSE i \in solid : \A j \in solid : i >= j
    IN  IF solid = {} THEN <<>> ELSE SubSeq(s, first, last_solid)

\* APIKeyRotator(keys): the new object, with the keys that are not empty after
\* trimming, trimmed, or the error of an empty pool.
NewRotator(keys) ==
    LET kept == SelectSeq(keys, LAMBDA k : k # <<>> /\ Strip(k) # <<>>)
        stripped == [i \in 1..Len(kept) |-> Strip(kept[i])]
    IN  IF stripped = <<>>
        THEN Raise(ValueError(<<"No", "valid", "API", "keys", "provided">>))
        ELSE Return([keys |-> stripped, index |-> 0])

\* Faulty variant of RotatorAdvance: the index stops at the last key instead of
\* wrapping.
RotatorAdvance_NoWrap(r) ==
    IF r.index + 1 < Len(r.keys) THEN r.index + 1 ELSE r.index

\* get_next: key = self.keys[self.index]
RotatorKey(r) == r.keys[r.index + 1]

\* get_next: (self.index + 1) % len(self.keys)
RotatorAdvance(r) == (r.index + 1) % Len(r.keys)

\* The key lists a rotator is built from: at most MaxKeys keys, each plain,
\* padded with blanks, empty or blank.
KeyPools ==
    LET RawKeys == {<<"k1">>, <<" ", "k2">>, <<"k3", " ">>, <<>>, <<" ">>} IN
    UNION {[1..n -> RawKeys] : n \in 1..MaxKeys}

\* A caller of get_next between two calls.
IdleCaller == [pc |-> "idle", key |-> <<>>, pos |-> 0, nxt |-> 0]

\* APIKeyRotator.__init__
RotatorInit ==
    /\ rot.state = "new"
    /\ LET r == NewRotator(rot.pool) IN
       rot' = IF r.tag = "raise"
              THEN [rot EXCEPT !.state = "invalid"]
              ELSE [rot EXCEPT !.state = "ready", !.keys = r.value.keys,
                               !.index = r.value.index]
    /\ UNCHANGED <<hist, th, mgr, an, pj>>
    /\ UNCHANGED <<dvars, pvars, ck, fx, host>>

\* get_next, line 55: key = self.keys[self.index]
GetNextRead(t) ==
    /\ rot.state = "ready"
    /\ th[t].pc = "idle"
    /\ Len(hist) + Cardinality({u \in DOMAIN th : th[u].pc # "idle"}) < MaxCalls
    /\ th' = [th EXCEPT ![t] = [pc |-> "read", key |-> RotatorKey(rot),
                                pos |-> rot.index, nxt |-> 0]]
    /\ UNCHANGED <<rot, hist, mgr, an, pj>>
    /\ UNCHANGED <<dvars, pvars, ck, fx, host>>

\* get_next, line 56, right-hand side: (self.index + 1) % len(self.keys)
GetNextCompute(t) ==
    /\ th[t].pc = "read"
    /\ th' = [th EXCEPT ![t].pc = "computed", ![t].nxt = RotatorAdvance(rot)]
    /\ UNCHANGED <<rot, hist, mgr, an, pj>>
    /\ UNCHANGED <<dvars, pvars, ck, fx, host>>

\* get_next, line 56, the store into self.index, and the return of the key.
GetNextStore(t) ==
    /\ th[t].pc = "computed"
    /\ rot' = [rot EXCEPT !.index = th[t].nxt]
    /\ hist' = Append(hist, [t |-> t, key |-> th[t].key, pos |-> th[t].pos])
    /\ th' = [th EXCEPT ![t] = IdleCaller]
    /\ UNCHANGED <<mgr, an, pj>>
    /\ UNCHANGED <<dvars, pvars, ck, fx, host>>

\* ------------------------------------------------------- LLMProviderManager

RECURSIVE Split(_, _)
\* str.split(sep): the pieces between the separators, "" giving [""].
Split(s, sep) ==
    IF s = <<>> THEN << <<>> >>
    ELSE LET rest == Split(Tail(s), sep) IN
         IF Head(s) = sep THEN << <<>> >> \o rest
         ELSE << <<Head(s)>> \o Head(rest) >> \o Tail(rest)

ProviderNames == {"gemini", "grok", "openai"}

\* The arguments of LLMProviderManager(...) and the settings of config.py.
\* Key lists: none, blanks only, two keys; priorities: none, names in other
\* case and with blanks, an unknown name and a name given twice, the reverse
\* of the default.
ManagerConfigs ==
    LET KeyStrings == {None, <<" ", ",", " ">>, <<" ", "k1", ",", "k2">>}
        Priorities == { None,
                        <<" ", "OpenAI", " ", ",", "Gemini">>,
                        <<"grok", ",", "claude", ",", "grok">>,
                        <<"openai", ",", "grok", ",", "gemini">> }
    IN  [args : [gemini_keys : KeyStrings, grok_keys : KeyStrings,
                 openai_keys : KeyStrings, provider_priority : Priorities],
         env : { [GEMINI_API_KEYS |-> g, GROK_API_KEYS |-> <<>>,
                  OPENAI_API_KEYS |-> <<>>,
                  LLM_PROVIDER_PRIORITY |-> <<"gemini", ",", "grok", ",", "openai">>] :
                 g \in {<<>>, <<"e1">>} }]

\* Faulty variant of ChainEntry: every known provider enters the chain, with
\* or without keys.
ChainEntry_IgnoreKeys(provider_name, rotators) ==
    LET name == LowerText(Strip(provider_name)) IN
    IF Len(name) = 1 /\ name[1] \in ProviderNames THEN <<name[1]>> ELSE <<>>

\* _build_provider_chain, one name of the priority list: the provider appended.
ChainEntry(provider_name, rotators) ==
    LET name == LowerText(Strip(provider_name)) IN
    IF Len(name) = 1 /\ name[1] \in ProviderNames
    THEN (IF rotators[name[1]] # None THEN <<name[1]>> ELSE <<>>)
    ELSE <<>>

\* LLMProviderManager(...): the new manager, or the error of an empty chain.
\* An argument that is None or empty gives way to the setting of config.py;
\* a provider has a rotator when its key string is not empty and holds a
\* valid key; the chain has the providers of the priority list that have one.
NewManager(a, env) ==
    LET strs == [p \in ProviderNames |->
                    CASE p = "gemini" -> IF a.gemini_keys # <<>> THEN a.gemini_keys
                                         ELSE env.GEMINI_API_KEYS
                      [] p = "grok" -> IF a.grok_keys # <<>> THEN a.grok_keys
                                       ELSE env.GROK_API_KEYS
                      [] p = "openai" -> IF a.openai_keys # <<>> THEN a.openai_keys
                                         ELSE env.OPENAI_API_KEYS]
        priority == Split(IF a.provider_priority # <<>> THEN a.provider_priority
                          ELSE env.LLM_PROVIDER_PRIORITY, ",")
        rotators == [p \in ProviderNames |->
                        IF strs[p] # <<>> /\ NewRotator(Split(strs[p], ",")).tag = "return"
                        THEN Some(NewRotator(Split(strs[p], ",")).value)
                        ELSE None]
        named == SelectSeq(priority, LAMBDA x : ChainEntry(x, rotators) # <<>>)
        providers == [i \in 1..Len(named) |-> ChainEntry(named[i], rotators)[1]]
    IN  IF providers = <<>>
        THEN Raise(ValueError(<<"No", "LLM", "providers", "available", ".",
                                "Please", "configure", "at", "least", "one", "of",
                                ":", "GEMINI_API_KEYS", ",", "GROK_API_KEYS", ",",
                                "OPENAI_API_KEYS">>))
        ELSE Return([key_rotators |-> rotators, providers |-> providers])

\* LLMProviderManager.__init__
ManagerInit ==
    /\ mgr.state = "new"
    /\ LET r == NewManager(mgr.args, mgr.env) IN
       mgr' = IF r.tag = "raise"
              THEN [mgr EXCEPT !.state = "invalid"]
              ELSE [mgr EXCEPT !.state = "ready",
                               !.key_rotators = r.value.key_rotators,
                               !.providers = r.value.providers]
    /\ UNCHANGED <<rot, hist, th, an, pj>>
    /\ UNCHANGED <<dvars, pvars, ck, fx, host>>

RECURSIVE CreateModels(_, _, _, _)
\* get_primary_model, the providers from position i on: each takes the next
\* key of its rotator; it joins the models when its factory succeeds, fact[i].
CreateModels(providers, i, fact, acc) ==
    IF i > Len(providers) THEN acc
    ELSE LET p == providers[i]
             r == acc.key_rotators[p][1]
             advanced == [acc.key_rotators EXCEPT
                             ![p] = Some([r EXCEPT !.index = RotatorAdvance(r)])]
             model == [name |-> p, key |-> RotatorKey(r), pos |-> i]
         IN  CreateModels(providers, i + 1, fact,
                 [key_rotators |-> advanced,
                  models |-> IF fact[i] THEN Append(acc.models, model)
                             ELSE acc.models])

\* Faulty variant of GetPrimaryModel: no fallback model is created.
GetPrimaryModel_PrimaryOnly(m, fact) ==
    CreateModels(SubSeq(m.providers, 1, 1), 1, fact,
                 [key_rotators |-> m.key_rotators, models |-> <<>>])

\* get_primary_model: the rotators afterwards and the models of the fallback
\* chain, primary first; no models when the factory of the primary fails.
GetPrimaryModel(m, fact) ==
    LET primary == CreateModels(SubSeq(m.providers, 1, 1), 1, fact,
                                [key_rotators |-> m.key_rotators, models |-> <<>>])
    IN  IF primary.models = <<>> THEN primary
        ELSE CreateModels(m.providers, 2, fact, primary)

\* --------------------------------------------------------- RecipeAnalyzer

\* RecipeAnalyzer(max_retries=3)
DefaultMaxRetries == 3

\* The exception of a provider in one attempt.
ApiError(attempt, name, what) ==
    [type |-> "Exception", msg |-> <<what, name>>, attempt |-> attempt]

\* Faulty variant of StopAfterAttempt: one attempt more is allowed.
StopAfterAttempt_OneMore(attempt_number, max_attempt_number) ==
    attempt_number > max_attempt_number

\* tenacity stop_after_attempt(self.max_retries)
StopAfterAttempt(attempt_number, max_attempt_number) ==
    attempt_number >= max_attempt_number

\* @retry(..., reraise=True): an attempt raised e.
AttemptFailed(a, e) ==
    IF StopAfterAttempt(a.attempt, a.max_retries)
    THEN [a EXCEPT !.pc = "done", !.outcome = Raise(e)]
    ELSE [a EXCEPT !.pc = "attempt", !.attempt = @ + 1, !.models = <<>>,
                   !.next = 0, !.err = None]

\* RecipeAnalyzer.__init__: the manager is taken, or its absence reported.
AnalyzerInit ==
    /\ an.pc = "new"
    /\ mgr.state \in {"ready", "invalid"}
    /\ an' = IF mgr.state = "invalid"
             THEN [an EXCEPT !.pc = "done",
                      !.outcome = Raise(ValueError(<<"Failed", "to", "initialize",
                                                     "LLM", "providers">>))]
             ELSE [an EXCEPT !.pc = "entry"]
    /\ UNCHANGED <<rot, hist, th, mgr, pj>>
    /\ UNCHANGED <<dvars, pvars, ck, fx, host>>

\* How far RecipeAnalyzer._load_thumbnail gets, analyzer.py lines 350-379: the
\* thumbnail is a local file that opens or does not; it is neither a file nor
\* an http(s) url ("invalid"); requests.get or raise_for_status fails;
\* NamedTemporaryFile fails; the write inside the with-block fails; Image.open
\* of the temporary file fails; os.unlink fails; or all of it succeeds.
LoadThumbnailSteps ==
    {"local_ok", "local_open_error", "invalid", "get_error", "create_error",
     "write_error", "open_error", "unlink_error", "ok"}

\* _load_thumbnail(thumbnail_url): whether an image is returned (None
\* otherwise: every exception is caught at line 377), whether Image.open has
\* opened a handle, whether a temporary file was created, and whether it is
\* still on disk at the return. The file is made with delete=False and
\* unlinked only by line 371, after Image.open at line 369: when os.unlink
\* raises, the handle is open and None is returned.
LoadThumbnail(step) ==
    [img |-> step \in {"local_ok", "ok"},
     opened |-> step \in {"local_ok", "unlink_error", "ok"},
     created |-> step \in {"write_error", "open_error", "unlink_error", "ok"},
     exists |-> step \in {"write_error", "open_error", "unlink_error"}]

\* _image_to_base64(img) raises in an attempt: image.save decodes the file,
\* which fails on a truncated image.
EncodeError(attempt) ==
    [type |-> "OSError", msg |-> <<"image", "file", "is", "truncated">>,
     attempt |-> attempt]

\* analyze_frames up to the inference call: the frame list is checked and,
\* inside the try block, the images are loaded: the thumbnail when a
\* thumbnail_url is given (an.thumb is how far _load_thumbnail gets, "none"
\* without a url), then the frames in order, up to the first one Image.open
\* fails on (an.bad, 0 for none). An image that is returned is appended to
\* images; the handle _load_thumbnail opened and did not return is in no list
\* of analyze_frames (an.dropped).
AnalyzeEnter ==
    /\ an.pc = "entry"
    /\ LET thumbnail == [what |-> "thumbnail", no |-> 0, state |-> "open"]
           loaded == an.thumb # "none" /\ LoadThumbnail(an.thumb).img
           lost == /\ an.thumb # "none" /\ LoadThumbnail(an.thumb).opened
                   /\ ~LoadThumbnail(an.thumb).img
           opened == (IF loaded THEN <<thumbnail>> ELSE <<>>)
                     \o [k \in 1..(IF an.bad = 0 THEN an.frames ELSE an.bad - 1) |->
                            [what |-> "frame", no |-> k, state |-> "open"]]
           dropped == IF lost THEN <<thumbnail>> ELSE <<>>
       IN
       an' = CASE an.entry = "empty" ->
                    [an EXCEPT !.pc = "done",
                        !.outcome = Raise(ValueError(<<"frame_paths", "cannot",
                                                       "be", "empty">>))]
               [] an.entry = "load_error" ->
                    [an EXCEPT !.pc = "done", !.in_try = TRUE, !.images = opened,
                        !.dropped = dropped,
                        !.outcome = Raise(ValueError(<<"Cannot", "load", "image">>))]
               [] OTHER -> [an EXCEPT !.pc = "attempt", !.attempt = 1,
                                      !.in_try = TRUE, !.images = opened,
                                      !.dropped = dropped]
    /\ UNCHANGED <<rot, hist, th, mgr, pj>>
    /\ UNCHANGED <<dvars, pvars, ck, fx, host>>

\* _api_call up to the network wait, lines 218-268: every image is encoded
\* and the message built; when that raises (encode_ok is false) the attempt
\* has failed before get_primary_model is reached. Otherwise
\* model = self.llm_manager.get_primary_model(), which moves the cursors.
AttemptGetModel ==
    /\ an.pc = "attempt"
    /\ \E encode_ok \in BOOLEAN, fact \in [1..Len(mgr.providers) -> BOOLEAN] :
         LET got == GetPrimaryModel(mgr, fact) IN
         /\ ~encode_ok => \A i \in 1..Len(mgr.providers) : fact[i]
         /\ IF ~encode_ok
            THEN /\ mgr' = mgr
                 /\ an' = AttemptFailed([an EXCEPT !.encode_failed = @ \cup {an.attempt}],
                                        EncodeError(an.attempt))
            ELSE
            /\ mgr' = [mgr EXCEPT !.key_rotators = got.key_rotators]
            /\ IF got.models = <<>>
               THEN LET e == ApiError(an.attempt, mgr.providers[1], "create_failed") IN
                    an' = AttemptFailed(
                             [an EXCEPT !.gpm_calls = @ + 1,
                                        !.log = Append(@, [attempt |-> an.attempt, pos |-> 1,
                                                           name |-> mgr.providers[1],
                                                           what |-> "create_failed"])], e)
               ELSE an' = [an EXCEPT !.pc = "invoke", !.models = got.models, !.next = 1,
                              !.err = None, !.gpm_calls = @ + 1,
                              !.log = @ \o LET skipped == SelectSeq([i \in 1..Len(mgr.providers) |-> i],
                                                                LAMBDA i : i >= 2 /\ ~fact[i])
                                        IN  [j \in 1..Len(skipped) |->
                                                [attempt |-> an.attempt, pos |-> skipped[j],
                                                 name |-> mgr.providers[skipped[j]],
                                                 what |-> "create_failed"]]]
    /\ UNCHANGED <<rot, hist, th, pj>>
    /\ UNCHANGED <<dvars, pvars, ck, fx, host>>

\* Faulty variant of Invoked: a later model is invoked after a success too.
Invoked_GoOn(a, ok, resp) ==
    LET model == a.models[a.next]
        entry == [attempt |-> a.attempt, pos |-> model.pos, name |-> model.name,
                  what |-> IF ok THEN "ok" ELSE "invoke_failed"]
        logged == [a EXCEPT !.log = Append(@, entry)]
        first == IF a.err = None
                 THEN ApiError(a.attempt, model.name, "invoke_failed")
                 ELSE a.err[1]
    IN  IF a.next < Len(a.models)
        THEN [logged EXCEPT !.next = @ + 1, !.err = IF ok THEN @ ELSE Some(first),
                            !.response = IF ok THEN Some(resp) ELSE @]
        ELSE IF ok THEN [logged EXCEPT !.pc = "parse", !.response = Some(resp)]
        ELSE AttemptFailed([logged EXCEPT !.err = Some(first)], first)

\* model.invoke([message]) of the fallback chain, at the model a.next: its
\* response ends the call; after its failure the next model is invoked, and
\* the first error is raised when none is left.
Invoked(a, ok, resp) ==
    LET model == a.models[a.next]
        entry == [attempt |-> a.attempt, pos |-> model.pos, name |-> model.name,
                  what |-> IF ok THEN "ok" ELSE "invoke_failed"]
        logged == [a EXCEPT !.log = Append(@, entry)]
        first == IF a.err = None
                 THEN ApiError(a.attempt, model.name, "invoke_failed")
                 ELSE a.err[1]
    IN  IF ok THEN [logged EXCEPT !.pc = "parse", !.response = Some(resp)]
        ELSE IF a.next < Len(a.models)
        THEN [logged EXCEPT !.next = @ + 1, !.err = Some(first)]
        ELSE AttemptFailed([logged EXCEPT !.err = Some(first)], first)

\* get_current_index: the index of the key handed out last; before the
\* first get_next it is the index of the last key.
GetCurrentIndex(r) == (r.index - 1) % Len(r.keys)

\* LLMProviderManager.get_provider_metadata
GetProviderMetadata(m) ==
    [primary_provider |-> m.providers[1],
     primary_key_index |-> GetCurrentIndex(m.key_rotators[m.providers[1]][1]),
     total_providers |-> Len(m.providers),
     provider_chain |-> m.providers]

\* _api_call: response = model.invoke([message]); after a response,
\* provider_info = self.llm_manager.get_provider_metadata(), line 275.
AttemptInvoke ==
    /\ an.pc = "invoke"
    /\ \E ok \in BOOLEAN, resp \in Responses :
         /\ ~ok => resp = [json |-> FALSE, kind |-> "text", d |-> <<>>, names |-> {}]
         /\ LET a == Invoked(an, ok, resp) IN
            an' = IF a.pc = "parse"
                  THEN [a EXCEPT !.provider_info = Some(GetProviderMetadata(mgr))]
                  ELSE a
    /\ UNCHANGED <<rot, hist, th, mgr, pj>>
    /\ UNCHANGED <<dvars, pvars, ck, fx, host>>

\* analyze_frames after the inference call: the usage metadata, lines 448-454,
\* _parse_json_response and _validate_recipe_data.
AnalyzeParse ==
    /\ an.pc = "parse"
    /\ LET recipe_data == ParseJsonResponse(an.response[1])
           invalid == ValidateRecipeData(recipe_data)
       IN  an' = [an EXCEPT !.pc = "done",
                     !.usage_metadata =
                         Some([provider |-> an.provider_info[1].primary_provider,
                               provider_metadata |-> an.provider_info[1]]),
                     !.outcome = IF invalid # None THEN Raise(invalid[1])
                                 ELSE Return(recipe_data)]
    /\ UNCHANGED <<rot, hist, th, mgr, pj>>
    /\ UNCHANGED <<dvars, pvars, ck, fx, host>>

\* The loop of the finally block, lines 483-487: img.close() for every image,
\* a failure is logged and the loop goes on.
CloseImages(images, close_ok) ==
    [k \in DOMAIN images |->
        [images[k] EXCEPT !.state = IF close_ok[k] THEN "closed" ELSE "close_failed"]]

\* The finally block of analyze_frames, lines 481-491; what the try block
\* returned or raised is what analyze_frames returns or raises.
AnalyzeFinally ==
    /\ an.pc = "done" /\ an.in_try
    /\ \E close_ok \in [DOMAIN an.images -> BOOLEAN] :
           an' = [an EXCEPT !.pc = "returned",
                            !.images = CloseImages(an.images, close_ok)]
    /\ UNCHANGED <<rot, hist, th, mgr, pj>>
    /\ UNCHANGED <<dvars, pvars, ck, fx, host>>

\* _parse_json_quick_response and the lines after it in
\* analyze_thumbnail_quick: text that is no JSON is an error here, the name is
\* looked for in the decoded value with \`in\`, and recipe_data['name'] is read.
QuickResult(resp, usage_metadata) ==
    LET data == [kind |-> resp.kind, d |-> resp.d, names |-> resp.names] IN
    IF ~resp.json
    THEN Raise(ValueError(<<"Invalid", "JSON", "response">>))
    ELSE IF data.kind \in {"number", "null"}
    THEN Raise([type |-> "TypeError", msg |-> <<"not", "iterable">>])
    ELSE IF ~HasField(data, "name")
    THEN Raise(ValueError(<<"Response", "missing", "'name'", "field">>))
    ELSE IF data.kind # "dict" THEN Raise(IndexError(data))
    ELSE Return([name |-> data.d["name"], usage_metadata |-> usage_metadata])

\* analyze_thumbnail_quick(thumbnail_url) up to the network wait of
\* model.invoke: the thumbnail is loaded (thumb = "loads") or the call raises;
\* _call_llm_api_quick encodes the image, line 640, and when that raises
\* (encode_ok is false) the call raises before a model is asked for;
\* otherwise it takes a model from the manager once, line 651, which moves
\* the cursors; when the primary model cannot be constructed the call raises.
\* The finally block closes the image of a call that raises. The manager
\* afterwards and the record of the call, which waits at "invoke" for the
\* answer.
QuickGetModel(m, thumb, encode_ok, fact, close_ok) ==
    LET got == GetPrimaryModel(m, fact)
        after == [m EXCEPT !.key_rotators = got.key_rotators]
        closed == IF close_ok THEN "closed" ELSE "close_failed"
    IN  IF thumb # "loads"
        THEN [mgr |-> m,
              quick |-> [pc |-> "idle", get_model |-> "none", models |-> <<>>,
                         image |-> "none",
                         outcome |-> Raise(ValueError(<<"Cannot", "load",
                                                        "thumbnail">>))]]
        ELSE IF ~encode_ok
        THEN [mgr |-> m,
              quick |-> [pc |-> "idle", get_model |-> "none", models |-> <<>>,
                         image |-> closed,
                         outcome |-> Raise(EncodeError(1))]]
        ELSE IF got.models = <<>>
        THEN [mgr |-> after,
              quick |-> [pc |-> "idle", get_model |-> "create_failed", models |-> <<>>,
                         image |-> closed,
                         outcome |-> Raise(ApiError(1, m.providers[1],
                                                    "create_failed"))]]
        ELSE [mgr |-> after,
              quick |-> [pc |-> "invoke", get_model |-> "created",
                         models |-> got.models, image |-> "open",
                         outcome |-> [tag |-> "none"]]]

\* analyze_thumbnail_quick from the end of the network wait on: the chain was
\* invoked once, without a retry; the model at position responder answered
\* with resp, or none did (responder = 0) and the error of the first model is
\* raised. After an answer get_provider_metadata() is read, line 658, from the
\* manager as it is by then, m; the answer is parsed and the name looked up;
\* the finally block closes the image.
QuickInvoked(m, q, responder, resp, close_ok) ==
    LET provider_info == GetProviderMetadata(m)
        usage_metadata == [provider |-> provider_info.primary_provider,
                           provider_metadata |-> provider_info]
    IN  [pc |-> "idle", get_model |-> q.get_model, models |-> q.models,
         image |-> IF close_ok THEN "closed" ELSE "close_failed",
         outcome |-> IF responder = 0
                     THEN Raise(ApiError(1, q.models[1].name, "invoke_failed"))
                     ELSE QuickResult(resp, usage_metadata)]

\* The responses to the name-only prompt: an object with the name and one
\* without it, lists and a string with and without the word, a number, and
\* text that is no JSON.
QuickResponses ==
    { JsonDict([k \in {"name"} |-> Str]),
      JsonDict([k \in {"ingredients", "steps"} |-> List(1)]),
      [json |-> TRUE, kind |-> "list", d |-> <<>>, names |-> {}],
      [json |-> TRUE, kind |-> "list", d |-> <<>>, names |-> {"name"}],
      [json |-> TRUE, kind |-> "text", d |-> <<>>, names |-> {}],
      [json |-> TRUE, kind |-> "text", d |-> <<>>, names |-> {"name"}],
      [json |-> TRUE, kind |-> "number", d |-> <<>>, names |-> {}],
      [json |-> FALSE, kind |-> "text", d |-> <<>>, names |-> {}] }

\* analyze_thumbnail_quick is called on the analyzer, the first phase of a
\* two-phase analysis, by a thread of its own: at any moment once the analyzer
\* exists, also while analyze_frames runs on the same manager. an.quick counts
\* the calls and keeps where the last one is and what it did.
AnalyzeThumbnailQuick ==
    /\ mgr.state = "ready"
    /\ an.pc # "new"
    /\ an.quick.pc = "idle"
    /\ an.quick.calls < MaxQuick
    /\ \E thumb \in {"fails", "loads"}, encode_ok \in BOOLEAN,
          fact \in [1..Len(mgr.providers) -> BOOLEAN], close_ok \in BOOLEAN :
         /\ thumb = "fails" => encode_ok
         /\ (thumb = "fails" \/ ~encode_ok) => fact[1]
         /\ ~fact[1] => \A i \in 2..Len(mgr.providers) : fact[i]
         /\ (thumb = "fails" \/ ~encode_ok) => \A i \in 2..Len(mgr.providers) : fact[i]
         /\ (thumb = "fails" \/ (encode_ok /\ fact[1])) => close_ok
         /\ LET r == QuickGetModel(mgr, thumb, encode_ok, fact, close_ok) IN
            /\ mgr' = r.mgr
            /\ an' = [an EXCEPT !.quick = [calls |-> an.quick.calls + 1,
                                           pc |-> r.quick.pc,
                                           get_model |-> r.quick.get_model,
                                           models |-> r.quick.models,
                                           image |-> r.quick.image,
                                           outcome |-> r.quick.outcome]]
    /\ UNCHANGED <<rot, hist, th, pj>>
    /\ UNCHANGED <<dvars, pvars, ck, fx, host>>

\* _call_llm_api_quick: model.invoke([message]) has returned or raised, and
\* analyze_thumbnail_quick runs to its end.
QuickInvoke ==
    /\ an.quick.pc = "invoke"
    /\ \E responder \in 0..Len(an.quick.models), resp \in QuickResponses,
          close_ok \in BOOLEAN :
         /\ responder = 0 =>
                resp = [json |-> FALSE, kind |-> "text", d |-> <<>>, names |-> {}]
         /\ LET q == QuickInvoked(mgr, an.quick, responder, resp, close_ok) IN
            an' = [an EXCEPT !.quick = [calls |-> an.quick.calls, pc |-> q.pc,
                                        get_model |-> q.get_model,
                                        models |-> q.models, image |-> q.image,
                                        outcome |-> q.outcome]]
    /\ UNCHANGED <<rot, hist, th, mgr, pj>>
    /\ UNCHANGED <<dvars, pvars, ck, fx, host>>

\* ------------------------------------------------- response text and JSON

\* The markdown code fence, three backquotes (written FENCE below).
Fence == "<fence>"

\* JSON values: a kind t, one of "str", "int", "null", "list" and "dict", and
\* the tokens of the string, the integer, nothing, the items or the members.
J(t, v) == [t |-> t, v |-> v]

\* {k1: v1, ...} from a sequence of <<key, value>> pairs; a later pair with the
\* same key replaces the earlier one.
RECURSIVE DictOf(_)
DictOf(pairs) ==
    IF pairs = <<>> THEN [k \in {} |-> J("null", <<>>)]
    ELSE LET init == DictOf(SubSeq(pairs, 1, Len(pairs) - 1))
             last_pair == pairs[Len(pairs)]
         IN  [k \in DOMAIN init \cup {last_pair[1]} |->
                 IF k = last_pair[1] THEN last_pair[2] ELSE init[k]]

\* The decimal numerals of the integers in use, the numeral of n at n + 1.
Numerals == <<"0", "1", "2", "3", "4", "5">>

\* The pieces of a string that json.dumps escapes, and what json.loads decodes.
Escapes == {<<"\n", "\\n">>, <<"\"", "\\\"">>, <<"\\", "\\\\">>}

RECURSIVE JoinItems(_, _)
\* The texts with the separator between them.
JoinItems(texts, sep) ==
    IF texts = <<>> THEN <<>>
    ELSE IF Len(texts) = 1 THEN texts[1]
    ELSE texts[1] \o sep \o JoinItems(Tail(texts), sep)

RECURSIVE Dump(_, _, _)
\* json.dumps(value) for the style "line" and json.dumps(value, indent=1) for
\* the style "indent", at a nesting depth. The members of an object are
\* written in the order of KeyOrder; Indent is the line break and indentation
\* at a depth, ItemSep the separator of items: ", " on one line, "," and a
\* line break when indenting.
Dump(value, style, depth) ==
    LET KeyOrder ==
            <<"name", "description", "amount", "unit", "ingredients", "step_number",
              "duration_minutes", "temperature", "tips", "steps", "servings",
              "prep_time", "cook_time", "tags">>
        Escape(tok) == IF \E e \in Escapes : e[1] = tok
                       THEN (CHOOSE e \in Escapes : e[1] = tok)[2] ELSE tok
        DumpStr(toks) == <<"\"">> \o [i \in 1..Len(toks) |-> Escape(toks[i])] \o <<"\"">>
        Indent(d) == IF style = "indent" THEN <<"\n">> \o [i \in 1..d |-> " "] ELSE <<>>
        ItemSep(d) == IF style = "indent" THEN <<",">> \o Indent(d) ELSE <<",", " ">>
    IN
    CASE value.t = "str" -> DumpStr(value.v)
      [] value.t = "int" -> <<Numerals[value.v + 1]>>
      [] value.t = "null" -> <<"null">>
      [] value.t = "list" ->
            IF value.v = <<>> THEN <<"[", "]">>
            ELSE <<"[">> \o Indent(depth + 1)
                 \o JoinItems([i \in 1..Len(value.v) |->
                                  Dump(value.v[i], style, depth + 1)],
                              ItemSep(depth + 1))
                 \o Indent(depth) \o <<"]">>
      [] value.t = "dict" ->
            LET keys == SelectSeq(KeyOrder, LAMBDA k : k \in DOMAIN value.v) IN
            IF keys = <<>> THEN <<"{", "}">>
            ELSE <<"{">> \o Indent(depth + 1)
                 \o JoinItems([i \in 1..Len(keys) |->
                                  DumpStr(<<keys[i]>>) \o <<":", " ">>
                                  \o Dump(value.v[keys[i]], style, depth + 1)],
                              ItemSep(depth + 1))
                 \o Indent(depth) \o <<"}">>

\* The token at a position, or the end of the text.
Tok(text, i) == IF i \in 1..Len(text) THEN text[i] ELSE "<end>"

\* The first position from i on that holds no whitespace.
SkipSpace(text, i) ==
    IF i > Len(text) THEN i
    ELSE LET S == {j \in i..(Len(text) + 1) : j > Len(text) \/ ~IsSpace(text[j])}
         IN  CHOOSE j \in S : \A k \in S : j <= k

\* The JSON decoder has no value at the position.
NoValue == [ok |-> FALSE, v |-> J("null", <<>>), i |-> 0]

RECURSIVE Concat(_)
\* The pieces of a string as one string.
Concat(toks) == IF toks = <<>> THEN "" ELSE Head(toks) \o Concat(Tail(toks))

RECURSIVE ScanString(_, _, _)
\* json.loads: a string literal after its opening quote.
ScanString(text, i, acc) ==
    CASE i > Len(text) -> NoValue
      [] i <= Len(text) /\ text[i] = "\"" -> [ok |-> TRUE, v |-> J("str", acc), i |-> i + 1]
      [] i <= Len(text) /\ text[i] \in {"\n", "\t", "\\"} -> NoValue
      [] OTHER -> ScanString(text, i + 1,
                             Append(acc, IF \E e \in Escapes : e[2] = text[i]
                                         THEN (CHOOSE e \in Escapes : e[2] = text[i])[1]
                                         ELSE text[i]))

RECURSIVE ScanValue(_, _)
RECURSIVE ScanItems(_, _, _)
RECURSIVE ScanMembers(_, _, _)

\* json.loads: one value at position i.
ScanValue(text, i) ==
    LET tok == Tok(text, i) IN
    CASE tok = "\"" -> ScanString(text, i + 1, <<>>)
      [] \E n \in DOMAIN Numerals : Numerals[n] = tok ->
            [ok |-> TRUE, i |-> i + 1,
             v |-> J("int", (CHOOSE n \in DOMAIN Numerals : Numerals[n] = tok) - 1)]
      [] tok = "null" -> [ok |-> TRUE, v |-> J("null", <<>>), i |-> i + 1]
      [] tok = "[" ->
            IF Tok(text, SkipSpace(text, i + 1)) = "]"
            THEN [ok |-> TRUE, v |-> J("list", <<>>), i |-> SkipSpace(text, i + 1) + 1]
            ELSE ScanItems(text, SkipSpace(text, i + 1), <<>>)
      [] tok = "{" ->
            IF Tok(text, SkipSpace(text, i + 1)) = "}"
            THEN [ok |-> TRUE, v |-> J("dict", DictOf(<<>>)), i |-> SkipSpace(text, i + 1) + 1]
            ELSE ScanMembers(text, SkipSpace(text, i + 1), <<>>)
      [] OTHER -> NoValue

\* json.loads: the items of an array, from the item at position i.
ScanItems(text, i, acc) ==
    LET item == ScanValue(text, i)
        j == SkipSpace(text, item.i)
    IN  IF ~item.ok THEN NoValue
        ELSE IF Tok(text, j) = ","
        THEN ScanItems(text, SkipSpace(text, j + 1), Append(acc, item.v))
        ELSE IF Tok(text, j) = "]"
        THEN [ok |-> TRUE, v |-> J("list", Append(acc, item.v)), i |-> j + 1]
        ELSE NoValue

\* json.loads: the members of an object, from the key at position i.
ScanMembers(text, i, acc) ==
    IF Tok(text, i) # "\"" THEN NoValue
    ELSE LET key == ScanString(text, i + 1, <<>>)
             c == SkipSpace(text, key.i)
         IN  IF ~key.ok \/ Tok(text, c) # ":" THEN NoValue
             ELSE LET value == ScanValue(text, SkipSpace(text, c + 1))
                      j == SkipSpace(text, value.i)
                      pairs == Append(acc, <<Concat(key.v.v), value.v>>)
                  IN  IF ~value.ok THEN NoValue
                      ELSE IF Tok(text, j) = ","
                      THEN ScanMembers(text, SkipSpace(text, j + 1), pairs)
                      ELSE IF Tok(text, j) = "}"
                      THEN [ok |-> TRUE, v |-> J("dict", DictOf(pairs)), i |-> j + 1]
                      ELSE NoValue

\* json.loads(text): the value, or JSONDecodeError.
JsonLoads(text) ==
    LET r == ScanValue(text, SkipSpace(text, 1)) IN
    IF r.ok /\ SkipSpace(text, r.i) > Len(text)
    THEN Return(r.v)
    ELSE Raise([type |-> "JSONDecodeError", msg |-> <<"Expecting", "value">>])

\* Faulty variant of OpeningFence: the fence is matched anywhere in a line.
OpeningFence_Unanchored(text, i) ==
    IF text[i] = Fence
    THEN SkipSpace(text, IF Tok(text, i + 1) = "json" THEN i + 2 ELSE i + 1)
    ELSE 0

\* ^FENCE(?:json)?\s* matched at position i: the position after the match, or
\* 0. With re.MULTILINE, ^ matches at the start of the text and after a line
\* break.
OpeningFence(text, i) ==
    IF (i = 1 \/ text[i - 1] = "\n") /\ text[i] = Fence
    THEN SkipSpace(text, IF Tok(text, i + 1) = "json" THEN i + 2 ELSE i + 1)
    ELSE 0

RECURSIVE ReSubFences(_, _)
\* re.sub(r'^FENCE(?:json)?\s*|\s*FENCE$', '', text, flags=re.MULTILINE), from
\* position i on: the text up to the leftmost match is kept, the match is
\* dropped, and the search goes on after it. ClosingFence is \s*FENCE$ matched
\* at a position, $ matching at the end of the text and before a line break;
\* FenceMatch is the pattern, its first alternative tried first.
ReSubFences(text, i) ==
    LET ClosingFence(j) ==
            LET k == SkipSpace(text, j) IN
            IF Tok(text, k) = Fence /\ (k + 1 > Len(text) \/ text[k + 1] = "\n")
            THEN k + 1 ELSE 0
        FenceMatch(j) ==
            IF OpeningFence(text, j) # 0 THEN OpeningFence(text, j) ELSE ClosingFence(j)
        starts == {j \in i..Len(text) : FenceMatch(j) # 0}
        first == CHOOSE j \in starts : \A k \in starts : j <= k
    IN  IF starts = {} THEN SubSeq(text, i, Len(text))
        ELSE SubSeq(text, i, first - 1) \o ReSubFences(text, FenceMatch(first))

\* _parse_json_response, line 510: the text json.loads is given.
StripFences(response_text) == Strip(ReSubFences(Strip(response_text), 1))

\* The creative fallback of _parse_json_response, as a JSON value.
FallbackValue ==
    LET Ingredient(name, amount, unit) ==
            J("dict", DictOf(<< <<"name", J("str", name)>>, <<"amount", J("str", amount)>>,
                                <<"unit", J("str", unit)>> >>))
        Step(n, minutes) ==
            J("dict", DictOf(<< <<"step_number", J("int", n)>>,
                                <<"description", J("str", <<"step-text">>)>>,
                                <<"duration_minutes", J("int", minutes)>>,
                                <<"temperature", J("str", <<"temperature-text">>)>>,
                                <<"tips", J("list", <<J("str", <<"tip-text">>)>>)>> >>))
    IN
    J("dict", DictOf(<<
        <<"name", J("str", <<"mystery-image-guide">>)>>,
        <<"description", J("str", <<"when-the-AI-has-nothing-to-say">>)>>,
        <<"ingredients", J("list", <<Ingredient(<<"curiosity">>, <<"1">>, <<"portion">>),
                                     Ingredient(<<"imagination">>, <<"some">>, <<>>),
                                     Ingredient(<<"open-mind">>, <<"plenty">>, <<>>)>>)>>,
        <<"steps", J("list", <<Step(1, 2), Step(2, 3), Step(3, 1)>>)>>,
        <<"servings", J("int", 1)>>, <<"prep_time", J("int", 1)>>,
        <<"cook_time", J("int", 5)>>,
        <<"tags", J("list", <<J("str", <<"creative">>), J("str", <<"fun">>),
                              J("str", <<"healing">>)>>)>> >>))

\* Faulty variant of ParseJsonText: the decode error propagates.
ParseJsonText_NoFallback(response_text) == JsonLoads(StripFences(response_text))

\* _parse_json_response(response_text): what the call returns or raises.
ParseJsonText(response_text) ==
    LET r == JsonLoads(StripFences(response_text)) IN
    IF r.tag = "return" THEN r ELSE Return(FallbackValue)

\* The recipes that pass validation. Soup has every kind of value in it;
\* Fenced has fences and a line break inside its strings, and empty lists;
\* Quoted has quotes and a backslash inside its strings.
ValidRecipes ==
  LET
    Soup ==
    J("dict", DictOf(<<
        <<"name", J("str", <<"soup">>)>>,
        <<"ingredients",
          J("list", <<J("dict", DictOf(<< <<"name", J("str", <<"egg">>)>>,
                                  <<"amount", J("str", <<"2">>)>> >>))>>)>>,
        <<"steps",
          J("list", <<J("dict", DictOf(<< <<"step_number", J("int", 1)>>,
                                  <<"description", J("str", <<"boil", " ", "it">>)>>,
                                  <<"temperature", J("null", <<>>)>> >>)),
                  J("dict", DictOf(<< <<"step_number", J("int", 2)>>,
                                  <<"description", J("str", <<>>)>> >>))>>)>>,
        <<"servings", J("int", 2)>> >>))
    Fenced ==
    J("dict", DictOf(<<
        <<"name", J("str", <<Fence, "json", "\n", Fence>>)>>,
        <<"ingredients", J("list", <<>>)>>,
        <<"steps", J("list", <<>>)>>,
        <<"tags", J("list", <<J("str", <<Fence>>), J("str", <<"\n", Fence, "\n">>)>>)>> >>))
    Quoted ==
    J("dict", DictOf(<<
        <<"name", J("str", <<"a", " ", "\"", "b", "\\">>)>>,
        <<"ingredients", J("list", <<J("str", <<"salt">>)>>)>>,
        <<"steps", J("list", <<J("str", <<"mix">>), J("str", <<"{", "}">>)>>)>> >>))
  IN  <<Soup, Fenced, Quoted>>

\* Decoded values that are no valid recipe.
InvalidValues ==
    << J("dict", DictOf(<< <<"ingredients", J("list", <<>>)>>, <<"steps", J("list", <<>>)>> >>)),
      J("dict", DictOf(<< <<"name", J("str", <<"x">>)>>, <<"steps", J("list", <<>>)>> >>)),
      J("dict", DictOf(<< <<"name", J("str", <<"x">>)>>, <<"ingredients", J("list", <<>>)>> >>)),
      J("dict", DictOf(<< <<"name", J("str", <<"x">>)>>, <<"ingredients", J("str", <<"egg">>)>>,
                      <<"steps", J("list", <<>>)>> >>)),
      J("dict", DictOf(<< <<"name", J("str", <<"x">>)>>, <<"ingredients", J("list", <<>>)>>,
                      <<"steps", J("int", 3)>> >>)),
      J("dict", DictOf(<< <<"name", J("null", <<>>)>>, <<"ingredients", J("list", <<J("int", 1)>>)>>,
                      <<"steps", J("list", <<J("null", <<>>)>>)>> >>)),
      J("dict", DictOf(<<>>)),
      J("list", <<J("int", 1)>>), J("int", 3), J("str", <<"hello">>), J("null", <<>>),
      J("list", <<J("str", <<"name">>)>>),
      J("list", <<J("str", <<"name">>), J("str", <<"ingredients">>),
                  J("str", <<"steps">>)>>),
      J("str", <<"name">>),
      J("str", <<"name", " ", "ingredients", " ", "steps">>) >>

\* A JSON text as the model sends it: bare, inside a code fence with or
\* without the json tag, with or without line breaks and padding, or after a
\* sentence of prose.
Wrap(body, wrap) ==
    CASE wrap = "none" -> body
      [] wrap = "json" -> <<Fence, "json", "\n">> \o body \o <<"\n", Fence>>
      [] wrap = "plain" -> <<Fence, "\n">> \o body \o <<"\n", Fence>>
      [] wrap = "tight" -> <<Fence, "json">> \o body \o <<Fence>>
      [] wrap = "padded" ->
            <<" ", "\n", Fence, "json", " ", "\n">> \o body \o <<"\n", Fence, " ", "\n">>
      [] wrap = "prose" ->
            <<"Here", " ", "it", " ", "is:", "\n", Fence, "json", "\n">>
            \o body \o <<"\n", Fence>>

\* The response texts of a parser call: the number k of the value they were
\* made of, in ValidRecipes \o InvalidValues, with the style of json.dumps and
\* the text around it; or k = 0 and a text that is no JSON.
ParserInputs ==
    { [k |-> k, wrap |-> w, style |-> st,
       text |-> Wrap(Dump((ValidRecipes \o InvalidValues)[k], st, 0), w)] :
          k \in 1..(Len(ValidRecipes) + Len(InvalidValues)),
          w \in {"none", "prose", "json", "plain", "tight", "padded"},
          st \in {"line", "indent"} }
    \cup { [k |-> 0, wrap |-> "none", style |-> "line", text |-> t] :
              t \in { <<"I", " ", "can't", " ", "help", " ", "with", " ", "that.">>,
                      <<>>, <<Fence>>, <<Fence, "json", "\n", Fence>>,
                      <<"{", "\"", "name", "\"", ":">>,
                      <<"[", "1", ",", "]">>,
                      <<"{", "\"", "name", "\"", ":", " ", "1", ",", "}">>,
                      <<"1", " ", "1">>,
                      <<"\"", "a", "\n", "b", "\"">>,
                      <<"{", "}", "\n", "Enjoy!">> } }

\* recipe_data = self._parse_json_response(response['text'])
ParseCall ==
    /\ pj.pc = "start"
    /\ pj' = [pj EXCEPT !.pc = "parsed",
                 !.stripped = StripFences(pj.input.text),
                 !.result = ParseJsonText(pj.input.text)]
    /\ UNCHANGED <<rot, hist, th, mgr, an>>
    /\ UNCHANGED <<dvars, pvars, ck, fx, host>>

\* self._validate_recipe_data(recipe_data)
ValidateCall ==
    /\ pj.pc = "parsed"
    /\ pj.result.tag = "return"
    /\ LET data == pj.result.value
           \* the decoded value as _validate_recipe_data looks at it
           seen == [kind |-> CASE data.t = "dict" -> "dict"
                               [] data.t = "list" -> "list"
                               [] data.t = "int" -> "number"
                               [] data.t = "null" -> "null"
                               [] OTHER -> "text",
                    d |-> IF data.t = "dict" THEN data.v ELSE <<>>,
                    names |->
                        CASE data.t = "list" ->
                               {f \in {"name", "ingredients", "steps"} :
                                   \E i \in 1..Len(data.v) :
                                       data.v[i].t = "str" /\ data.v[i].v = <<f>>}
                          [] data.t = "str" ->
                               {f \in {"name", "ingredients", "steps"} :
                                   Contains(data.v, <<f>>)}
                          [] OTHER -> {}]
           invalid == ValidateRecipeData(seen)
       IN  pj' = [pj EXCEPT !.pc = "done",
                     !.after = Some(data),
                     !.outcome = IF invalid # None THEN Raise(invalid[1])
                                 ELSE Return(data)]
    /\ UNCHANGED <<rot, hist, th, mgr, an>>
    /\ UNCHANGED <<dvars, pvars, ck, fx, host>>

\* ------------------------------------------- CredentialStore: the file scope

\* Faulty variant of AcquireCookies: a failed fetch is raised to the caller.
AcquireCookies_Propagate(platform, step) ==
    IF ~(platform \in cookies_mapping)
    THEN [raised |-> FALSE, path |-> None, exists |-> FALSE, fetches |-> 0]
    ELSE [raised |-> step # "ok", path |-> IF step = "ok" THEN Some("tmp.txt") ELSE None,
          exists |-> step \in {"write_error", "ok"}, fetches |-> 1]

\* get_cookies_file(platform) up to its yield, lines 48-87. step is how far the
\* try block gets: urlopen fails ("url_error", "http_error"), decode('utf-8')
\* fails, NamedTemporaryFile fails ("create_error"), write or close fails after
\* the file was created ("write_error"), or all of it succeeds ("ok"). Every
\* exception is caught at line 81 and leaves temp_file_path = None; the path
\* is assigned at line 77, after the write. exists: a file created by
\* NamedTemporaryFile(delete=False) is on disk.
AcquireCookies(platform, step) ==
    IF ~(platform \in cookies_mapping)
    THEN [raised |-> FALSE, path |-> None, exists |-> FALSE, fetches |-> 0]
    ELSE [raised |-> FALSE, path |-> IF step = "ok" THEN Some("tmp.txt") ELSE None,
          exists |-> step \in {"write_error", "ok"}, fetches |-> 1]

\* `with cookies_manager.get_cookies_file(platform) as cookie_file:` is entered.
CookiesEnter ==
    /\ ck.pc = "start"
    /\ \E step \in {"url_error", "http_error", "decode_error", "create_error",
                    "write_error", "ok"} :
         LET got == AcquireCookies(ck.platform, step) IN
         ck' = [ck EXCEPT !.pc = IF got.raised THEN "done" ELSE "scope",
                          !.step = IF ck.platform \in cookies_mapping THEN step ELSE "none",
                          !.path = got.path, !.exists = got.exists,
                          !.fetches = got.fetches,
                          !.outcome = IF got.raised THEN "acquire_raised" ELSE "none"]
    /\ UNCHANGED <<dvars, pvars, rot, hist, th, mgr, an, pj, fx, host>>

\* The with-block ends: it runs to its end, raises (as download() does when
\* there is no cookie file or the attempt with cookies fails) or returns early
\* (as download() does when the attempt with cookies succeeds); the generator
\* is resumed and its finally block, lines 91-98, unlinks the file when
\* temp_file_path is set and the file exists. A failing unlink is logged.
CookiesExit ==
    /\ ck.pc = "scope"
    /\ \E body \in {"complete", "exception", "return"}, unlink_ok \in BOOLEAN :
         LET unlinks == ck.path # None /\ ck.exists IN
         /\ unlinks \/ unlink_ok
         /\ ck' = [ck EXCEPT !.pc = "done",
                             !.unlinks = IF unlinks THEN 1 ELSE 0,
                             !.exists = IF unlinks /\ unlink_ok THEN FALSE ELSE ck.exists,
                             !.outcome = body]
    /\ UNCHANGED <<dvars, pvars, rot, hist, th, mgr, an, pj, fx, host>>

\* ------------------------------------------------------------ FrameExtractor

\* len(frame_paths) / count, line 110, as Python computes it: the IEEE 754
\* double nearest to n / t (ties to even), for n >= t >= 1. The double is
\* bits / 2^scale, bits being the 53 digits of its significand, the first one
\* first. rem[k] is the remainder of the long division after k digits of the
\* fraction.
FloatQuotient(n, t) ==
    LET ip == n \div t
        e == CHOOSE x \in 0..30 : 2^x <= ip /\ ip < 2^(x + 1)
        scale == 52 - e
        rem[k \in 0..scale] == IF k = 0 THEN n % t ELSE (2 * rem[k - 1]) % t
        m0 == [j \in 1..53 |-> IF j <= e + 1 THEN (ip \div 2^(e + 1 - j)) % 2
                               ELSE (2 * rem[j - e - 2]) \div t]
        up == 2 * rem[scale] > t \/ (2 * rem[scale] = t /\ m0[53] = 1)
        zeros == {j \in 1..53 : m0[j] = 0}
        z == CHOOSE j \in zeros : \A k \in zeros : k <= j
    IN  IF ~up THEN [bits |-> m0, scale |-> scale]
        ELSE IF zeros = {} THEN [bits |-> <<1>> \o [j \in 1..53 |-> 0], scale |-> scale]
        ELSE [bits |-> [j \in 1..53 |-> IF j < z THEN m0[j] ELSE IF j = z THEN 1 ELSE 0],
              scale |-> scale]

\* int(i * step), line 111, as Python computes it: the double nearest to the
\* product of the integer i and the double q (ties to even), truncated. p holds
\* the digits of the exact product i * q.bits, the last one first; the digits
\* below the 53 leading ones are rounded away, which changes the integer part
\* when the rounding carries through every kept digit of the fraction.
TruncatedProduct(i, q) ==
    LET len == Len(q.bits)
        m(k) == IF k <= len THEN q.bits[len + 1 - k] ELSE 0
        carry[k \in 0..(len + 6)] == IF k = 0 THEN 0 ELSE (i * m(k) + carry[k - 1]) \div 2
        p == [k \in 1..(len + 6) |-> (i * m(k) + carry[k - 1]) % 2]
        ones == {k \in 1..(len + 6) : p[k] = 1}
        top == CHOOSE k \in ones : \A j \in ones : j <= k
        dropped == top - 53
        int_part == LET hi == {k \in ones : k > q.scale} IN
                    IF hi = {} THEN 0
                    ELSE LET Sum[S \in SUBSET hi] ==
                                 IF S = {} THEN 0
                                 ELSE LET k == CHOOSE x \in S : TRUE
                                      IN  2^(k - q.scale - 1) + Sum[S \ {k}]
                         IN  Sum[hi]
        round_up == /\ dropped >= 1
                    /\ p[dropped] = 1
                    /\ (p[dropped + 1] = 1 \/ \E k \in 1..(dropped - 1) : p[k] = 1)
    IN  IF i = 0 THEN 0
        ELSE IF round_up /\ \A k \in (dropped + 1)..q.scale : p[k] = 1
        THEN int_part + 1
        ELSE int_part

\* FrameExtractor.select_key_frames(frame_paths, count)
select_key_frames(frame_paths, count) ==
    IF Len(frame_paths) <= count THEN frame_paths
    ELSE LET step == FloatQuotient(Len(frame_paths), count)
         IN  [i \in 1..count |-> frame_paths[TruncatedProduct(i - 1, step) + 1]]

\* calculate_optimal_frame_count(duration_seconds, mode) is called.
PlanCall ==
    /\ fx.pc = "start" /\ fx.op = "plan"
    /\ fx' = [fx EXCEPT !.pc = "done",
                        !.planned = calculate_optimal_frame_count(fx.duration_seconds, fx.mode)]
    /\ UNCHANGED <<dvars, pvars, rot, hist, th, mgr, an, pj, ck, host>>

\* _select_best_thumbnail(info) is called on one metadata dict.
ThumbnailCall ==
    /\ fx.pc = "start" /\ fx.op = "thumbnail"
    /\ fx' = [fx EXCEPT !.pc = "done", !.ret = SelectBestThumbnail(fx.info)]
    /\ UNCHANGED <<dvars, pvars, rot, hist, th, mgr, an, pj, ck, host>>

\* _load_thumbnail is called on one thumbnail.
LoadThumbnailCall ==
    /\ fx.pc = "start" /\ fx.op = "load_thumbnail"
    /\ \E step \in LoadThumbnailSteps :
         LET r == LoadThumbnail(step) IN
         fx' = [fx EXCEPT !.pc = "done", !.step = step, !.img = r.img,
                          !.created = r.created, !.exists = r.exists]
    /\ UNCHANGED <<dvars, pvars, rot, hist, th, mgr, an, pj, ck, host>>

\* How far ThumbnailProxy.download_and_upload gets: requests.get or
\* raise_for_status fails; open(output_path, 'wb') fails; the write fails
\* after open has created the file; upload_to_r2 raises; or all succeeds.
ProxySteps == {"get_error", "open_error", "write_error", "upload_error", "ok"}

\* download_and_upload(thumbnail_url), thumbnail_generator.py lines 192-222.
\* thumbnail_path is assigned only when download_thumbnail returns; the
\* finally block removes the file when thumbnail_path is set and the file
\* exists, and a failing os.remove is logged and swallowed.
DownloadAndUpload(step, remove_ok) ==
    LET created == step \in {"write_error", "upload_error", "ok"}
        thumbnail_path == IF step \in {"upload_error", "ok"} THEN Some("thumb.jpg") ELSE None
        removes == thumbnail_path # None /\ created
    IN [raised |-> step # "ok",
        created |-> created,
        removes |-> IF removes THEN 1 ELSE 0,
        exists |-> created /\ ~(removes /\ remove_ok)]

\* download_and_upload is called on one thumbnail url.
ProxyCall ==
    /\ fx.pc = "start" /\ fx.op = "proxy"
    /\ \E step \in ProxySteps, remove_ok \in BOOLEAN :
         LET r == DownloadAndUpload(step, remove_ok) IN
         /\ r.removes = 1 \/ remove_ok
         /\ fx' = [fx EXCEPT !.pc = "done", !.step = step, !.raised = r.raised,
                             !.created = r.created, !.removes = r.removes,
                             !.exists = r.exists]
    /\ UNCHANGED <<dvars, pvars, rot, hist, th, mgr, an, pj, ck, host>>

\* select_key_frames(frame_paths, count) is called on the frames 0..n-1.
SelectCall ==
    /\ fx.pc = "start" /\ fx.op = "select"
    /\ fx' = [fx EXCEPT !.pc = "done",
                        !.selected = select_key_frames([k \in 1..fx.n |-> k - 1], fx.count)]
    /\ UNCHANGED <<dvars, pvars, rot, hist, th, mgr, an, pj, ck, host>>

\* A frame file: the prefix and the number of its name, and the time in the
\* video it was taken at, in seconds, as the fraction ts.num / ts.den.
FrameFile(kind, idx, num, den) == [kind |-> kind, idx |-> idx, ts |-> [num |-> num, den |-> den]]

\* sorted(paths): the frame files by name. The names are <kind>_<idx>.jpg with
\* idx written in four digits, so they are ordered by prefix, as strings, and
\* then by number.
SortedFrames(paths) ==
    LET files == {paths[k] : k \in DOMAIN paths}
        Rank(kind) == CASE kind = "frame" -> 1 [] kind = "hybrid_uniform" -> 2
                        [] kind = "scene" -> 3 [] kind = "uniform" -> 4
        Before(f, g) == Rank(f.kind) < Rank(g.kind)
                        \/ (f.kind = g.kind /\ f.idx < g.idx)
    IN  [k \in 1..Cardinality(files) |->
            CHOOSE f \in files : Cardinality({g \in files : Before(g, f)}) = k - 1]

\* The frames ffmpeg writes at the timestamps step * (i + 1), i < count, with
\* step = duration / (count + 1): lines 235-252 with the prefix "uniform",
\* lines 320-337 with the prefix "hybrid_uniform".
UniformFramesAtIntervals(kind, duration, count) ==
    [k \in 1..count |-> FrameFile(kind, k - 1, duration * k, count + 1)]

\* FrameExtractor._supplement_with_uniform
SupplementWithUniform(duration, existing_frames, target_count) ==
    LET needed == target_count - Len(existing_frames) IN
    IF needed <= 0 THEN existing_frames
    ELSE SortedFrames(existing_frames \o UniformFramesAtIntervals("uniform", duration, needed))

\* FrameExtractor.extract_frames_by_scene_detection: scenes are the seconds at
\* which ffmpeg detects a scene change; it writes scene_0001.jpg, ... in the
\* order of the video. The result is returned or, with no target at all and
\* frames to pick from, the division by zero at line 181 is raised.
ExtractFramesBySceneDetection(duration, scenes, target_count) ==
    LET frame_paths == [k \in 1..Cardinality(scenes) |->
                           FrameFile("scene", k,
                                     CHOOSE x \in scenes :
                                         Cardinality({y \in scenes : y < x}) = k - 1, 1)]
    IN  IF Len(frame_paths) > target_count
        THEN (IF target_count = 0
              THEN Raise([type |-> "ZeroDivisionError", msg |-> <<"division", "by", "zero">>])
              ELSE Return(select_key_frames(frame_paths, target_count)))
        ELSE IF Len(frame_paths) < target_count
        THEN Return(SupplementWithUniform(duration, frame_paths, target_count))
        ELSE Return(frame_paths)

\* FrameExtractor.extract_frames_hybrid; int(target_count * 0.7) is
\* 7 * target_count \div 10 for the targets in use.
ExtractFramesHybrid(duration, scenes, target_count) ==
    LET scene_count == (7 * target_count) \div 10
        uniform_count == target_count - scene_count
        scene_frames == ExtractFramesBySceneDetection(duration, scenes, scene_count)
    IN  IF scene_frames.tag = "raise" THEN scene_frames
        ELSE Return(SortedFrames(scene_frames.value
                                 \o UniformFramesAtIntervals("hybrid_uniform", duration,
                                                             uniform_count)))

\* FrameExtractor.extract_and_select(video_path, output_dir, key_frame_count,
\* strategy) is called on a video of fx.duration seconds; at one frame a
\* second, extract_frames writes frame_0001.jpg, ... for the seconds 0, 1, ...
\* A failing ffmpeg run raises CalledProcessError.
SamplerCall ==
    /\ fx.pc = "start" /\ fx.op = "sample"
    /\ fx' = [fx EXCEPT
                 !.pc = "done",
                 !.ret =
                    IF ~fx.ffmpeg_ok
                    THEN Raise([type |-> "CalledProcessError", msg |-> <<"ffmpeg", "failed">>])
                    ELSE CASE fx.strategy = "scene" ->
                                 ExtractFramesBySceneDetection(fx.duration, fx.scenes,
                                                               fx.target_count)
                           [] fx.strategy = "hybrid" ->
                                 ExtractFramesHybrid(fx.duration, fx.scenes, fx.target_count)
                           [] OTHER ->
                                 Return(select_key_frames(
                                            [k \in 1..fx.duration |->
                                                FrameFile("frame", k, k - 1, 1)],
                                            fx.target_count))]
    /\ UNCHANGED <<dvars, pvars, rot, hist, th, mgr, an, pj, ck, host>>

\* download_video(url, output_dir): download() of a fresh VideoDownloader as
\* one function of what its collaborators do: the acquisition tool in the
\* attempt without cookies (d.tool1), the fetch of the cookie file
\* (d.fetch_ok) and the tool in the attempt with cookies (d.tool2). It returns
\* the DownloadResult or raises the downloader's own error.
DownloadVideo(url, d) ==
    IF InvalidUrl(url) THEN Raise(ValueError(MsgInvalidUrl(url)))
    ELSE LET tier1 == DownloadWithYdl(url, None, d.tool1)
             platform == DetectPlatform(url)
             file == GetCookiesFile(platform, d.fetch_ok)
             tier2 == DownloadWithYdl(url, file, d.tool2)
         IN  IF AfterTier1(tier1) # "lookup" THEN tier1
             ELSE IF CookieMissing(file) THEN Raise(ValueError(MsgNoCookies(platform)))
             ELSE IF tier2.tag = "return" THEN tier2
             ELSE Raise(Tier2Error(tier2.value))

\* analyze_recipe_from_frames(frame_paths, ...), a fresh RecipeAnalyzer and
\* its analyze_frames, as one function of what happens: the manager cannot be
\* set up, a frame cannot be opened, every attempt of the inference call
\* failed, or a model answered with resp, which is parsed and validated.
AnalyzeRecipeFromFrames(step, resp, provider) ==
    CASE step = "init_error" ->
           Raise(ValueError(<<"Failed", "to", "initialize", "LLM", "providers">>))
      [] step = "load_error" -> Raise(ValueError(<<"Cannot", "load", "image">>))
      [] step = "api_error" -> Raise(Exception(<<"invoke_failed", provider>>))
      [] OTHER ->
           LET recipe_data == ParseJsonResponse(resp)
               invalid == ValidateRecipeData(recipe_data)
           IN  IF invalid # None THEN Raise(invalid[1])
               ELSE Return([recipe |-> recipe_data.d,
                            usage_metadata |-> [provider |-> provider,
                                                total_tokens |-> 0]])

\* The acquisition tool inside an incremental analysis: as in a pipeline run,
\* with one behaviour of the thumbnail collaborators and, for the gallery
\* tool, a timeout, a missing binary, a failing exit, no photo or one photo.
IncrementalTools ==
    LET photo == [name |-> 1, ext |-> "jpg"]
        Galleries ==
            {g \in GalleryEnvs : g.kind \in {"timeout", "oserror"} \/ g.rc = 1}
            \cup {[kind |-> "exit", rc |-> 0, stderr |-> <<>>, found |-> {},
                   listing |-> <<>>, upload_ok |-> TRUE],
                  [kind |-> "exit", rc |-> 0, stderr |-> <<>>, found |-> {photo},
                   listing |-> <<photo>>, upload_ok |-> TRUE]}
    IN  {[kind |-> "ok", text |-> <<>>,
          thumb |-> [source |-> TRUE, proxy_ok |-> TRUE, extract_ok |-> TRUE,
                     upload_ok |-> TRUE],
          gallery |-> NoGallery]}
        \cup [kind : {"noinfo", "nofile"}, text : {<<>>}, thumb : {NoThumbEnv},
              gallery : {NoGallery}]
        \cup [kind : {"other"}, text : OtherTexts, thumb : {NoThumbEnv},
              gallery : {NoGallery}]
        \cup {[kind |-> "DownloadError", text |-> t, thumb |-> NoThumbEnv, gallery |-> g] :
                 t \in {x \in PipelineTexts : ~MentionsPhoto(x)}, g \in {NoGallery}}
        \cup {[kind |-> "DownloadError", text |-> t, thumb |-> NoThumbEnv, gallery |-> g] :
                 t \in {x \in PipelineTexts : MentionsPhoto(x)}, g \in Galleries}

\* The tool of an attempt that is not made.
NoTool == [kind |-> "none", text |-> <<>>, thumb |-> NoThumbEnv, gallery |-> NoGallery]

\* The frame_count argument of run_incremental_analysis: None or a number.
IncrementalFrameCounts == {None} \cup {Some(k) : k \in 0..MaxFrames}

\* run_incremental_analysis(url, excluded_frame_indices, existing_recipe,
\* cleanup, api_key, frame_count), pipeline.py lines 371-475: what it returns
\* or raises, the stage it ends at, the frames it hands to
\* analyze_recipe_from_frames, the count it asks the sampler for and the
\* strategy, and whether the workspace is left on disk. An error of a
\* collaborator is logged and raised again as it is.
\* excluded_frame_indices is logged at line 377 and not used again.
RunIncrementalAnalysis(url, excluded_frame_indices, cleanup, frame_count, e) ==
    LET Outcome(download, count, extracted, analysis) ==
            LET carousel == download.tag = "return" /\ is_photo_carousel(download.value)
                sampled == e.mk_ok /\ download.tag = "return" /\ ~carousel /\ e.probe_ok
                all_extracted_frames ==
                    IF sampled /\ extracted.tag = "return" THEN extracted.value ELSE <<>>
                stage == IF ~e.mk_ok THEN "mkdtemp"
                         ELSE IF download.tag = "raise" THEN "download"
                         ELSE IF carousel THEN "carousel"
                         ELSE IF ~e.probe_ok THEN "probe"
                         ELSE IF extracted.tag = "raise" THEN "extract"
                         ELSE IF all_extracted_frames = <<>> THEN "no_frames"
                         ELSE IF analysis.tag = "raise" THEN "analyze"
                         ELSE "ok"
                Result(stage_, frames) ==
                    LET video_info == [duration_seconds |-> e.duration,
                                       file_size_bytes |-> 5000,
                                       frames_extracted |-> Len(frames),
                                       frames_analyzed |-> Len(frames),
                                       frame_indices |-> [i \in 1..Len(frames) |-> i]]
                        metadata == [llm_usage |-> analysis.value.usage_metadata,
                                     is_incremental |-> TRUE,
                                     extraction_method |-> "download",
                                     video_info |-> video_info]
                    IN [ret |->
                          CASE stage_ = "mkdtemp" ->
                                 Raise([type |-> "OSError", msg |-> <<"mkdtemp", "failed">>])
                            [] stage_ = "download" -> download
                            [] stage_ = "carousel" ->
                                 Raise(ValueError(<<"Incremental", "analysis", "requires",
                                                    "video", "input", ",", "not", "photo",
                                                    "carousel">>))
                            [] stage_ = "probe" ->
                                 Raise([type |-> "CalledProcessError",
                                        msg |-> <<"ffprobe", "failed">>])
                            [] stage_ = "extract" -> extracted
                            [] stage_ = "no_frames" ->
                                 Raise(ValueError(<<"No", "frames", "extracted", "from",
                                                    "video">>))
                            [] stage_ = "analyze" -> analysis
                            [] OTHER ->
                                 Return([k \in DOMAIN analysis.value.recipe \cup {"metadata"} |->
                                            IF k = "metadata"
                                            THEN [t |-> "dict", meta |-> metadata]
                                            ELSE analysis.value.recipe[k]]),
                        stage |-> stage_,
                        analyzed |-> IF stage_ \in {"analyze", "ok"} THEN frames ELSE <<>>,
                        is_incremental |-> stage_ \in {"analyze", "ok"},
                        sampler |-> IF sampled
                                    THEN Some([count |-> count, strategy |-> "hybrid"])
                                    ELSE None,
                        temp_left |-> e.mk_ok /\ ~(cleanup /\ e.rm_ok)]
            IN  Result(stage, all_extracted_frames)
        Extract(count) ==
            IF ~e.ffmpeg_ok
            THEN Raise([type |-> "CalledProcessError", msg |-> <<"ffmpeg", "failed">>])
            ELSE ExtractFramesHybrid(e.duration, e.scenes, count)
        Sample(download, count) ==
            Outcome(download, count, Extract(count),
                    AnalyzeRecipeFromFrames(e.astep, e.resp, e.provider))
    IN  Sample(DownloadVideo(url, e),
               IF frame_count = None
               THEN calculate_optimal_frame_count(e.duration, "accurate")
               ELSE frame_count[1])

\* run_incremental_analysis is called once. What a collaborator would do is
\* left at one value when the call does not get to it, and the collaborators
\* vary one stage at a time: the download while the later stages succeed on a
\* video of no length, or the probe and the extraction after a download that
\* succeeds at once, or the analysis after that.
IncrementalCall ==
    /\ fx.pc = "start" /\ fx.op = "incremental"
    /\ \E mk_ok \in BOOLEAN, tool1 \in IncrementalTools \cup {NoTool} :
         /\ (mk_ok /\ ~InvalidUrl(fx.url)) <=> tool1 # NoTool
         /\ \E fetch_ok \in BOOLEAN, tool2 \in IncrementalTools \cup {NoTool} :
              LET lookup == tool1 # NoTool
                            /\ AfterTier1(DownloadWithYdl(fx.url, None, tool1)) = "lookup"
                  with_cookies ==
                      lookup /\ ~CookieMissing(GetCookiesFile(DetectPlatform(fx.url), fetch_ok))
              IN
              /\ ~lookup => fetch_ok
              /\ with_cookies <=> tool2 # NoTool
              /\ \E probe_ok \in BOOLEAN, duration \in Durations, ffmpeg_ok \in BOOLEAN,
                    scenes \in {0..(k - 1) : k \in 0..MaxFrames} :
                   LET later == probe_ok /\ duration = 0 /\ ffmpeg_ok /\ scenes = {} IN
                   /\ tool1.kind # "ok" => later
                   /\ ~probe_ok => (duration = 0 /\ ffmpeg_ok)
                   /\ ~ffmpeg_ok => scenes = {}
                   /\ scenes \subseteq 0..(duration - 1)
                   /\ \E astep \in {"init_error", "load_error", "api_error", "ok"},
                         resp \in Responses, provider \in ProviderNames,
                         rm_ok \in BOOLEAN :
                        /\ ~(tool1.kind = "ok" /\ later /\ fx.frame_count # Some(0)) =>
                               astep = "ok"
                        /\ ~(tool1.kind = "ok" /\ later /\ fx.frame_count # Some(0)
                                /\ astep = "ok") =>
                               resp = [json |-> FALSE, kind |-> "text", d |-> <<>>,
                                       names |-> {}]
                        /\ ValidateRecipeData(ParseJsonResponse(resp)) # None =>
                               provider = "gemini"
                        /\ ~(fx.cleanup /\ mk_ok) => rm_ok
                        /\ LET e == [mk_ok |-> mk_ok, tool1 |-> tool1, fetch_ok |-> fetch_ok,
                                     tool2 |-> tool2, probe_ok |-> probe_ok,
                                     duration |-> duration, ffmpeg_ok |-> ffmpeg_ok,
                                     scenes |-> scenes, astep |-> astep, resp |-> resp,
                                     provider |-> provider, rm_ok |-> rm_ok]
                               out == RunIncrementalAnalysis(
                                          fx.url, fx.excluded_frame_indices, fx.cleanup,
                                          fx.frame_count, e)
                           IN
                           /\ fx' = [fx EXCEPT !.pc = "done", !.step = out.stage,
                                               !.out = out]
    /\ UNCHANGED <<dvars, pvars, rot, hist, th, mgr, an, pj, ck, host>>

\* The parts of the LLM side that are not in use: all but those named in S.
IdleLLM(S) ==
    /\ "rot" \in S \/ (rot = [state |-> "none"] /\ hist = <<>> /\ th = <<>>)
    /\ "mgr" \in S \/ (mgr = [state |-> "none"] /\ an = [pc |-> "none"])
    /\ "pj" \in S \/ pj = [pc |-> "none"]
    /\ "ck" \in S \/ ck = [pc |-> "none"]
    /\ "fx" \in S \/ fx = [pc |-> "none"]
    /\ "host" \in S \/ host = [pc |-> "none"]

\* ------------------------------------------------------------ specifications

\* A standalone VideoDownloader.download(url) call.
InitDownload ==
    /\ dpc = "start" /\ durl \in Urls /\ ydlCalls = 0 /\ lookups = 0 /\ fetches = 0
    /\ cookie_file = None /\ last = NoCall /\ dresult = None /\ derr = None
    /\ IdlePipeline
    /\ IdleLLM({})

NextDownload ==
    \/ DownloadEnter
    \/ Tier1(ToolTexts)
    \/ Tier2Lookup
    \/ Tier2(ToolTexts)

SpecDownload == InitDownload /\ [][NextDownload]_vars

\* One analyze_recipe_from_url(...) call.
Init ==
    /\ IdleDownload
    /\ ppc = "start" /\ args \in PipelineArgs /\ temp_dir = None /\ tempExists = FALSE
    /\ loc = InitLocals(args) /\ calls = NoCalls /\ pending = None
    /\ outcome = [tag |-> "none"]
    /\ IdleLLM({})

Next ==
    \/ PipelineStart
    \/ PipelineStreaming
    \/ PipelineDownload
    \/ DownloadEnter
    \/ Tier1(PipelineTexts)
    \/ Tier2Lookup
    \/ Tier2(PipelineTexts)
    \/ PipelineAfterDownload
    \/ PipelineProbe
    \/ PipelineExtract
    \/ PipelineAnalyze
    \/ PipelineFinally

Spec == Init /\ [][Next]_vars

\* One APIKeyRotator built from a configured key list and used by the callers
\* in the domain of th.
InitRotator(callers) ==
    /\ IdleDownload /\ IdlePipeline /\ IdleLLM({"rot"})
    /\ \E pool \in KeyPools :
           rot = [state |-> "new", pool |-> pool, keys |-> <<>>, index |-> 0]
    /\ hist = <<>>
    /\ th = [t \in callers |-> IdleCaller]

NextRotator ==
    \/ RotatorInit
    \/ \E t \in DOMAIN th : GetNextRead(t)
    \/ \E t \in DOMAIN th : GetNextCompute(t)
    \/ \E t \in DOMAIN th : GetNextStore(t)

\* One analyze_frames call of a RecipeAnalyzer on a new LLMProviderManager,
\* with one of the configurations, one of the outcomes of _load_thumbnail and
\* at most max_frames frame paths.
InitAnalyze(configs, retries, thumbs, max_frames) ==
    /\ IdleDownload /\ IdlePipeline /\ IdleLLM({"mgr"})
    /\ \E c \in configs :
           mgr = [state |-> "new", args |-> c.args, env |-> c.env,
                  key_rotators |-> [p \in ProviderNames |-> None], providers |-> <<>>]
    /\ \E n \in retries, thumb \in thumbs, frames \in 0..max_frames :
         \E bad \in 0..frames :
           an = [pc |-> "new", max_retries |-> n,
                 entry |-> IF frames = 0 THEN "empty"
                           ELSE IF bad # 0 THEN "load_error" ELSE "ok",
                 thumb |-> thumb, frames |-> frames, bad |-> bad,
                 images |-> <<>>, dropped |-> <<>>, in_try |-> FALSE,
                 attempt |-> 0, gpm_calls |-> 0, encode_failed |-> {}, models |-> <<>>, next |-> 0, log |-> <<>>, err |-> None,
                 response |-> None, provider_info |-> None, usage_metadata |-> None,
                 outcome |-> [tag |-> "none"],
                 quick |-> [calls |-> 0, pc |-> "idle", get_model |-> "none",
                            models |-> <<>>, image |-> "none",
                            outcome |-> [tag |-> "none"]]]

NextAnalyze ==
    \/ ManagerInit
    \/ AnalyzerInit
    \/ AnalyzeEnter
    \/ AttemptGetModel
    \/ AttemptInvoke
    \/ AnalyzeParse
    \/ AnalyzeFinally

\* Every configuration of the manager, and one frame without a thumbnail.
SpecAnalyze ==
    /\ InitAnalyze(ManagerConfigs, 1..DefaultMaxRetries, {"none"}, 1)
    /\ [][NextAnalyze]_vars

NextQuick ==
    \/ NextAnalyze
    \/ AnalyzeThumbnailQuick
    \/ QuickInvoke

\* The two callers of get_primary_model on one manager: a quick analysis of
\* the thumbnail and an analysis of one frame, each in a thread of its own.
\* gemini has the key of the settings or two keys of its own, grok has no keys
\* or two and openai none, under every priority.
SpecQuick ==
    /\ InitAnalyze({c \in ManagerConfigs :
                        /\ c.args.gemini_keys # <<" ", ",", " ">>
                        /\ c.env.GEMINI_API_KEYS # <<>>
                        /\ c.args.grok_keys # <<" ", ",", " ">>
                        /\ c.args.openai_keys = None},
                   {2}, {"none"}, 1)
    /\ [][NextQuick]_vars

\* The configurations of the gemini keys alone, at most MaxFrames frames, and
\* no thumbnail or one that cannot be fetched, that is opened and then not
\* returned because its temporary file cannot be unlinked, or that loads.
SpecImages ==
    /\ InitAnalyze({c \in ManagerConfigs :
                        /\ c.args.grok_keys = None /\ c.args.openai_keys = None
                        /\ c.args.provider_priority = None},
                   1..DefaultMaxRetries, {"none", "get_error", "unlink_error", "ok"},
                   MaxFrames)
    /\ [][NextAnalyze]_vars

\* One standalone call of one component: a use of get_cookies_file, or a call
\* of the frame planner, of the thumbnail selection, of the analyzer's
\* thumbnail loader, of the thumbnail proxy, of the incremental analysis, of
\* the key-frame
\* selector or of a frame sampler; the scene sampler also on longer videos with
\* a scene change every second.
InitCall ==
    /\ IdleDownload /\ IdlePipeline /\ IdleLLM({"ck", "fx"})
    /\ \/ /\ fx = [pc |-> "none"]
          /\ \E platform \in {"youtube", "instagram", "facebook", "other"} :
                 ck = [pc |-> "start", platform |-> platform, step |-> "none",
                       path |-> None, exists |-> FALSE, fetches |-> 0, unlinks |-> 0,
                       outcome |-> "none"]
       \/ /\ ck = [pc |-> "none"]
          /\ \/ \E d \in 0..MaxDuration, mode \in Modes :
                    fx = [pc |-> "start", op |-> "plan", duration_seconds |-> d,
                          mode |-> mode, planned |-> 0]
             \/ \E info \in ThumbnailInfos :
                    fx = [pc |-> "start", op |-> "thumbnail", info |-> info, ret |-> None]
             \/ \E url \in PipelineUrls,
                   excluded \in {S \in SUBSET (1..(MaxFrames + 1)) : Cardinality(S) <= 1},
                   cleanup \in BOOLEAN, frame_count \in IncrementalFrameCounts :
                    fx = [pc |-> "start", op |-> "incremental", step |-> "none", url |-> url,
                          excluded_frame_indices |-> excluded, cleanup |-> cleanup,
                          frame_count |-> frame_count, out |-> None]
             \/ fx = [pc |-> "start", op |-> "load_thumbnail", step |-> "none",
                      img |-> FALSE, created |-> FALSE, exists |-> FALSE]
             \/ fx = [pc |-> "start", op |-> "proxy", step |-> "none", raised |-> FALSE,
                      created |-> FALSE, removes |-> 0, exists |-> FALSE]
             \/ \E n \in 0..MaxListed, count \in 1..MaxListed :
                    fx = [pc |-> "start", op |-> "select", n |-> n, count |-> count,
                          selected |-> <<>>]
             \/ \E strategy \in Strategies, duration \in 1..MaxSeconds,
                   target_count \in 1..MaxTarget, ffmpeg_ok \in BOOLEAN :
                  \E scenes \in SUBSET (0..(duration - 1)) :
                    fx = [pc |-> "start", op |-> "sample", strategy |-> strategy,
                          duration |-> duration, scenes |-> scenes,
                          target_count |-> target_count, ffmpeg_ok |-> ffmpeg_ok,
                          ret |-> [tag |-> "none"]]
             \/ \E duration \in (MaxSeconds + 1)..MaxListed, target_count \in 1..MaxListed :
                    fx = [pc |-> "start", op |-> "sample", strategy |-> "scene",
                          duration |-> duration, scenes |-> 0..(duration - 1),
                          target_count |-> target_count, ffmpeg_ok |-> TRUE,
                          ret |-> [tag |-> "none"]]

NextCall ==
    \/ CookiesEnter
    \/ CookiesExit
    \/ PlanCall
    \/ ThumbnailCall
    \/ LoadThumbnailCall
    \/ ProxyCall
    \/ IncrementalCall
    \/ SelectCall
    \/ SamplerCall

SpecCall == InitCall /\ [][NextCall]_vars

\* ------------------------------------------------------ the host, main.py

\* The blocking stages of analyze_recipe_from_url, in order: download_video,
\* the probing and the extraction of the frames, analyze_recipe_from_frames.
PipelineStages == <<"download", "extract", "inference">>

\* What a blocking stage does: it returns or it raises.
StageResults == {"ok", "ValueError", "Exception"}

\* The thread of the event loop: idle, waiting for an event, or running the
\* step of a task: of the worker, or of the handler of request no.
Loop(task, no) == [task |-> task, no |-> no]

\* The job lists of a poll: at most MaxJobs jobs of different ids, each with a
\* video_url, with a video_file_id only, or with neither.
JobLists ==
    LET Job == [job_id : 1..MaxJobs, input : {"video_url", "video_file_id", "none"}]
    IN  {<<>>} \cup {<<j>> : j \in Job}
        \cup {p \in Job \X Job : p[1].job_id # p[2].job_id}

\* The replies to GET /v1/analysis/failed: a status other than 200, an empty
\* body, a body that is no JSON, no jobs, a raised error, or a job list.
PollReplies ==
    {[what |-> x, jobs |-> <<>>] :
        x \in {"error_status", "empty", "bad_json", "no_jobs", "exception"}}
    \cup {[what |-> "jobs", jobs |-> js] : js \in JobLists \ {<<>>}}

\* Faulty variant of NextJob: the check `job_id in processed_failures` is
\* missing and every job of the list is processed.
NextJob_NoSkip(w, jobs) ==
    LET fresh == 1..Len(jobs)
        urls == {k \in fresh : jobs[k].input = "video_url"}
        first == IF urls = {} THEN Len(jobs) + 1
                 ELSE CHOOSE k \in urls : \A j \in urls : k <= j
        rejected == {jobs[k].job_id : k \in {j \in fresh : j < first}}
    IN  IF urls = {}
        THEN [w EXCEPT !.pc = "sleep", !.jobs = <<>>, !.stage = 0,
                       !.processed_failures = @ \cup rejected,
                       !.failed = @ \cup rejected]
        ELSE [w EXCEPT !.pc = "job", !.jobs = SubSeq(jobs, first, Len(jobs)),
                       !.stage = 1, !.last_run = "in_flight",
                       !.processed_failures = @ \cup rejected,
                       !.failed = @ \cup rejected]

\* The for loop of active_mode_worker from the head of jobs on, up to its next
\* await: a job in processed_failures is skipped, process_job raises at once
\* for a job without video_url, which is added to processed_failures, and for
\* a job with video_url it starts analyze_recipe_from_url; after the last job
\* the worker sleeps, line 648. failed holds the ids whose processing failed
\* since the last reset, skipped tells whether a job was skipped since the
\* last poll.
NextJob(w, jobs) ==
    LET fresh == {k \in 1..Len(jobs) : jobs[k].job_id \notin w.processed_failures}
        urls == {k \in fresh : jobs[k].input = "video_url"}
        first == IF urls = {} THEN Len(jobs) + 1
                 ELSE CHOOSE k \in urls : \A j \in urls : k <= j
        rejected == {jobs[k].job_id : k \in {j \in fresh : j < first}}
        passed == \E k \in 1..Len(jobs) : k < first /\ k \notin fresh
    IN  IF urls = {}
        THEN [w EXCEPT !.pc = "sleep", !.jobs = <<>>, !.stage = 0,
                       !.processed_failures = @ \cup rejected,
                       !.failed = @ \cup rejected,
                       !.skipped = @ \/ passed]
        ELSE [w EXCEPT !.pc = "job", !.jobs = SubSeq(jobs, first, Len(jobs)),
                       !.stage = 1, !.last_run = "in_flight",
                       !.processed_failures = @ \cup rejected,
                       !.failed = @ \cup rejected,
                       !.skipped = @ \/ passed]

\* Faulty variant of LifespanShutdown: the task is cancelled and not awaited.
LifespanShutdown_NoAwait(h) ==
    IF h.worker.pc = "none" THEN [h EXCEPT !.pc = "stopped"]
    ELSE [h EXCEPT !.pc = "stopped", !.worker.must_cancel = TRUE]

\* lifespan after the yield: task.cancel() and await task, when there is a task.
LifespanShutdown(h) ==
    IF h.worker.pc = "none" THEN [h EXCEPT !.pc = "stopped"]
    ELSE [h EXCEPT !.pc = "await_task", !.worker.must_cancel = TRUE]

\* lifespan up to the yield: in active mode the worker task is created.
HostStartup ==
    /\ host.pc = "startup"
    /\ host' = [host EXCEPT !.pc = "serving",
                    !.worker.pc = IF host.mode = "active" THEN "created" ELSE "none"]
    /\ UNCHANGED <<dvars, pvars, rot, hist, th, mgr, an, pj, ck, fx>>

\* The host is told to shut down, at any moment of the worker and of the
\* handlers.
ShutdownSignal ==
    /\ host.pc = "serving" /\ ~host.signal
    /\ host' = [host EXCEPT !.signal = TRUE, !.sig_at = host.worker.pc]
    /\ UNCHANGED <<dvars, pvars, rot, hist, th, mgr, an, pj, ck, fx>>

\* The event loop runs lifespan after the yield.
HostShutdown ==
    /\ host.pc = "serving" /\ host.signal /\ host.loop = Loop("idle", 0)
    /\ host' = LifespanShutdown(host)
    /\ UNCHANGED <<dvars, pvars, rot, hist, th, mgr, an, pj, ck, fx>>

\* await task ends when the task is done; its CancelledError is dropped.
HostAwaitDone ==
    /\ host.pc = "await_task" /\ host.loop = Loop("idle", 0)
    /\ host.worker.pc = "cancelled"
    /\ host' = [host EXCEPT !.pc = "stopped"]
    /\ UNCHANGED <<dvars, pvars, rot, hist, th, mgr, an, pj, ck, fx>>

\* The event loop resumes the worker at the await it is suspended at: the
\* start of the task, client.get, client.put or asyncio.sleep. A cancelled
\* task gets CancelledError there, which no except clause of the worker
\* catches; otherwise the worker runs up to its next await, or into the
\* blocking call of process_job. At the head of the while loop
\* processed_failures is cleared when more than 24 hours have passed since
\* the last reset, which cannot be on the first round.
WorkerResume ==
    /\ host.pc \in {"serving", "await_task"} /\ host.loop = Loop("idle", 0)
    /\ host.worker.pc \in {"created", "poll", "submit", "sleep"}
    /\ LET w == host.worker
           Go(next) == [host EXCEPT !.worker = next,
                            !.loop = IF next.pc = "job" THEN Loop("worker", 0)
                                     ELSE Loop("idle", 0)]
       IN  CASE w.must_cancel ->
                  host' = [host EXCEPT !.worker.pc = "cancelled", !.worker.jobs = <<>>]
             [] ~w.must_cancel /\ w.pc = "created" ->
                  host' = Go([w EXCEPT !.pc = "poll"])
             [] ~w.must_cancel /\ w.pc = "sleep" ->
                  \E reset_due \in BOOLEAN :
                      host' = Go(IF reset_due
                                 THEN [w EXCEPT !.pc = "poll", !.skipped = FALSE,
                                                !.processed_failures = {}, !.failed = {}]
                                 ELSE [w EXCEPT !.pc = "poll", !.skipped = FALSE])
             [] ~w.must_cancel /\ w.pc = "poll" ->
                  \E reply \in PollReplies :
                      host' = Go(IF reply.what = "jobs" THEN NextJob(w, reply.jobs)
                                 ELSE [w EXCEPT !.pc = "sleep"])
             [] ~w.must_cancel /\ w.pc = "submit" ->
                  \E submitted \in BOOLEAN :
                      host' = Go(NextJob(IF submitted THEN w
                                         ELSE [w EXCEPT !.processed_failures =
                                                            @ \cup {w.jobs[1].job_id},
                                                        !.failed = @ \cup {w.jobs[1].job_id}],
                                         Tail(w.jobs)))
    /\ UNCHANGED <<dvars, pvars, rot, hist, th, mgr, an, pj, ck, fx>>

\* process_job inside the worker: recipe_data = analyze_recipe_from_url(...),
\* a plain call, stage after stage on the thread of the loop. After the last
\* stage the worker awaits client.put; an error adds the job to
\* processed_failures and the for loop goes on.
WorkerPipelineStep ==
    /\ host.loop = Loop("worker", 0) /\ host.worker.pc = "job"
    /\ \E result \in StageResults :
         LET w == host.worker
             next == IF result # "ok"
                     THEN NextJob([w EXCEPT !.last_run = "failed",
                                      !.processed_failures = @ \cup {w.jobs[1].job_id},
                                      !.failed = @ \cup {w.jobs[1].job_id}],
                                  Tail(w.jobs))
                     ELSE IF w.stage < Len(PipelineStages)
                     THEN [w EXCEPT !.stage = @ + 1]
                     ELSE [w EXCEPT !.pc = "submit", !.stage = 0,
                                    !.last_run = "completed"]
         IN  host' = [host EXCEPT !.worker = next,
                          !.loop = IF next.pc = "job" THEN Loop("worker", 0)
                                   ELSE Loop("idle", 0)]
    /\ UNCHANGED <<dvars, pvars, rot, hist, th, mgr, an, pj, ck, fx>>

\* Request r is the next of its endpoint: the requests to one endpoint are
\* numbered in the order their handlers start.
NextOfEndpoint(r) ==
    \A q \in 1..(r - 1) :
        host.reqs[q].kind = host.reqs[r].kind => host.reqs[q].pc # "waiting"

\* The event loop starts the handler of a request. health_check returns at
\* once; readiness_check runs ffmpeg -version with subprocess.run and looks at
\* the configured key, on the thread of the loop, and returns its report;
\* analyze_video and analyze_video_from_url begin their run.
RequestStart(r) ==
    /\ host.pc = "serving" /\ host.loop = Loop("idle", 0)
    /\ host.reqs[r].pc = "waiting" /\ NextOfEndpoint(r)
    /\ \/ /\ host.reqs[r].kind = "health"
          /\ host' = [host EXCEPT !.reqs[r].pc = "responded", !.reqs[r].status = 200,
                                  !.reqs[r].body = "healthy"]
       \/ /\ host.reqs[r].kind = "ready"
          /\ \E ffmpeg_ok \in BOOLEAN, has_key \in BOOLEAN :
                host' = [host EXCEPT !.reqs[r].pc = "responded", !.reqs[r].status = 200,
                                    !.reqs[r].body = IF ffmpeg_ok /\ has_key THEN "ready"
                                                     ELSE "not_ready"]
       \/ /\ host.reqs[r].kind \in {"analyze", "analyze-from-url"}
          /\ host' = [host EXCEPT !.reqs[r].pc = "pipeline", !.reqs[r].stage = 1,
                                  !.loop = Loop("request", r)]
    /\ UNCHANGED <<dvars, pvars, rot, hist, th, mgr, an, pj, ck, fx>>

\* The blocking stages of analyze_video: the upload is saved to the temporary
\* directory; _process_video probes the file and extracts the frames; the
\* frames, or the image, are analyzed.
UploadStages == <<"save", "extract", "inference">>

\* analyze_video on an upload, plain calls on the thread of the loop, stage
\* after stage. An image goes from the first stage to the analysis. A video
\* without frames raises HTTPException(400), which is raised again; any other
\* error, a ValueError too, becomes the status 500.
UploadStep(q, result, is_image) ==
    IF result = "ok" /\ q.stage < Len(UploadStages)
    THEN [q EXCEPT !.stage = IF q.stage = 1 /\ is_image THEN 3 ELSE @ + 1]
    ELSE [q EXCEPT !.pc = "responded", !.stage = 0,
                   !.body = IF result = "ok" THEN "recipe" ELSE "error",
                   !.status = CASE result = "ok" -> 200
                                [] result = "HTTPException" -> 400
                                [] OTHER -> 500]

\* analyze_video_from_url: recipe_data = analyze_recipe_from_url(...), a plain
\* call, stage after stage on the thread of the loop; ValueError becomes the
\* status 400 and any other error 500.
UrlStep(q, result) ==
    IF result = "ok" /\ q.stage < Len(PipelineStages)
    THEN [q EXCEPT !.stage = @ + 1]
    ELSE [q EXCEPT !.pc = "responded", !.stage = 0,
                   !.body = IF result = "ok" THEN "recipe" ELSE "error",
                   !.status = CASE result = "ok" -> 200
                                [] result = "ValueError" -> 400
                                [] OTHER -> 500]

\* One blocking stage of the handler of an analysis request.
RequestPipelineStep(r) ==
    /\ host.loop = Loop("request", r) /\ host.reqs[r].pc = "pipeline"
    /\ \E result \in StageResults \cup {"HTTPException"}, is_image \in BOOLEAN :
         /\ result = "HTTPException" =>
                /\ host.reqs[r].kind = "analyze"
                /\ UploadStages[host.reqs[r].stage] = "extract"
         /\ is_image => host.reqs[r].kind = "analyze" /\ host.reqs[r].stage = 1
         /\ LET q == IF host.reqs[r].kind = "analyze"
                     THEN UploadStep(host.reqs[r], result, is_image)
                     ELSE UrlStep(host.reqs[r], result)
            IN  host' = [host EXCEPT !.reqs[r] = q,
                             !.loop = IF q.pc = "responded" THEN Loop("idle", 0)
                                      ELSE @]
    /\ UNCHANGED <<dvars, pvars, rot, hist, th, mgr, an, pj, ck, fx>>

\* The public endpoints: GET /health, GET /ready, POST /analyze and
\* POST /analyze-from-url.
Endpoints == <<"health", "ready", "analyze", "analyze-from-url">>

\* A host in active or passive mode with MaxRequests requests on its way, to
\* any of the endpoints. The requests are numbered for the model alone and
\* can be started in any order, so they are numbered by endpoint.
InitHost ==
    /\ IdleDownload /\ IdlePipeline /\ IdleLLM({"host"})
    /\ \E mode \in {"active", "passive"},
          to \in [1..MaxRequests -> 1..Len(Endpoints)] :
       LET kinds == [r \in 1..MaxRequests |-> Endpoints[to[r]]] IN
       /\ \A r \in 1..(MaxRequests - 1) : to[r] <= to[r + 1]
       /\ host = [pc |-> "startup", mode |-> mode, signal |-> FALSE,
               sig_at |-> "none", loop |-> Loop("idle", 0),
               worker |-> [pc |-> "none", must_cancel |-> FALSE, jobs |-> <<>>,
                           stage |-> 0, processed_failures |-> {},
                           last_run |-> "none", failed |-> {}, skipped |-> FALSE],
               reqs |-> [r \in 1..MaxRequests |->
                            [kind |-> kinds[r], pc |-> "waiting", stage |-> 0,
                             status |-> 0, body |-> "none"]]]

NextHost ==
    \/ HostStartup
    \/ ShutdownSignal
    \/ HostShutdown
    \/ HostAwaitDone
    \/ WorkerResume
    \/ WorkerPipelineStep
    \/ \E r \in 1..MaxRequests : RequestStart(r)
    \/ \E r \in 1..MaxRequests : RequestPipelineStep(r)

SpecHost == InitHost /\ [][NextHost]_vars

\* One response text through _parse_json_response and _validate_recipe_data.
InitParse ==
    /\ IdleDownload /\ IdlePipeline /\ IdleLLM({"pj"})
    /\ \E input \in ParserInputs :
           pj = [pc |-> "start", input |-> input, stripped |-> <<>>,
                 result |-> [tag |-> "none"], after |-> None,
                 outcome |-> [tag |-> "none"]]

NextParse ==
    \/ ParseCall
    \/ ValidateCall

SpecParse == InitParse /\ [][NextParse]_vars

\* get_next called by one caller, one call after the other.
SpecRotator == InitRotator({1}) /\ [][NextRotator]_vars

\* get_next called by two threads of one process.
SpecThreads == InitRotator({1, 2}) /\ [][NextRotator]_vars


\* ===================================================================
\* Properties of download(), checked under SpecDownload
\* ===================================================================

\* The text of the error the last attempt raised, lower-cased.
LastErrorText == LowerText(last.ret.value.msg)

\* The text the acquisition tool gave for its last failure, lower-cased.
LastToolText == LowerText(last.tool.text)

\* The authentication markers as the specification lists them.
SpecAuthMarkers ==
    << <<"sign", "in">>, <<"login", "required">>, <<"bot">>, <<"age-restricted">>,
       <<"private">>, <<"members-only">>, <<"not", "available">>,
       <<"cannot", "parse", "data">>,
       <<"unable", "to", "extract", "video", "url">> >>

Marked(msg, marker) == Contains(msg, <<marker>>)

\* C1: when the Tier-1 attempt succeeds its result is what download() returns,
\* at once: the credential store is neither looked up nor fetched from, and the
\* acquisition tool is not invoked a second time.
C1_Tier1SuccessReturned ==
    /\ (ydlCalls = 1 /\ last.ret.tag = "return") =>
           /\ dpc = "returned"
           /\ dresult = Some(last.ret.value)
           /\ last.cookie = None
           /\ lookups = 0
           /\ fetches = 0
    /\ (dpc = "returned" /\ lookups = 0) => ydlCalls = 1

C1_Witness ==
    /\ dpc = "returned"
    /\ ydlCalls = 1
    /\ last.tool.kind = "ok"
    /\ dresult = Some(last.ret.value)
    /\ DetectPlatform(durl) = "youtube"

\* C2: when the Tier-1 attempt fails with an error text holding none of the
\* authentication markers, download() raises that same error, without a
\* credential lookup and without a Tier-2 attempt.
C2_NoMarkerReraised ==
    (/\ ydlCalls = 1
     /\ last.ret.tag = "raise"
     /\ ~ContainsAny(LastErrorText, SpecAuthMarkers)) =>
        /\ dpc = "raised"
        /\ derr = Some(last.ret.value)
        /\ lookups = 0
        /\ fetches = 0

C2_Witness ==
    /\ dpc = "raised"
    /\ ydlCalls = 1
    /\ lookups = 0
    /\ last.tool.kind = "DownloadError"
    /\ ~ContainsAny(LastErrorText, SpecAuthMarkers)
    /\ Marked(last.ret.value.msg, "[PERMANENT]")
    /\ derr = Some(last.ret.value)

\* C3: when the Tier-1 failure holds an authentication marker and the
\* credential store gives no credentials (no file mapped to the platform, or
\* the fetch failed), download() raises the error "authentication required but
\* no cookies available" and the acquisition tool is not invoked again.
C3_NoCookiesRaises ==
    /\ (lookups = 1 /\ ydlCalls = 1) =>
           /\ ContainsAny(LastErrorText, SpecAuthMarkers)
           /\ ~(DetectPlatform(durl) \in {"instagram", "youtube"}) => cookie_file = None
           /\ cookie_file = None =>
                  /\ dpc = "raised"
                  /\ derr = Some(ValueError(MsgNoCookies(DetectPlatform(durl))))
    /\ ydlCalls = 2 => last.cookie # None
    /\ lookups <= 1

C3_Witness ==
    /\ dpc = "raised"
    /\ lookups = 1
    /\ fetches = 1
    /\ ydlCalls = 1
    /\ Contains(LastToolText, <<"login", "required">>)
    /\ Contains(LowerText(derr[1].msg),
                <<"authentication", "required", "but", "no", "cookies", "available">>)

\* C4: when the Tier-1 failure holds an authentication marker and credentials
\* are available, exactly one retry is made, with them: its result is returned
\* if it succeeds, and if it fails the error "Failed to download even with
\* cookies ... Original error: <second error>" is raised; there is no third
\* attempt.
C4_OneRetryWithCookies ==
    /\ ydlCalls <= 2
    /\ dpc = "tier2" =>
           /\ ydlCalls = 1
           /\ cookie_file # None
           /\ ContainsAny(LastErrorText, SpecAuthMarkers)
    /\ ydlCalls = 2 =>
           /\ lookups = 1
           /\ last.cookie # None
           /\ last.opts.cookiefile = last.cookie
           /\ IF last.ret.tag = "return"
              THEN dpc = "returned" /\ dresult = Some(last.ret.value)
              ELSE /\ dpc = "raised"
                   /\ derr = Some(ValueError(
                          <<"Failed", "to", "download", "even", "with", "cookies", ".",
                            "Cookies", "may", "have", "expired", "or", "video", "is",
                            "unavailable", ".", "Original", "error", ":">>
                          \o last.ret.value.msg))

C4_Witness ==
    /\ ydlCalls = 2
    /\ dpc = "raised"
    /\ last.ret.tag = "raise"
    /\ last.tool.kind = "DownloadError"
    /\ Contains(derr[1].msg, <<"Original", "error", ":">> \o last.ret.value.msg)

\* What the specification calls a permanent-failure pattern in a tool error:
\* 'unsupported url' counts only when 'photo' is absent.
SpecPermanent(text) ==
    \/ ContainsAny(text,
         << <<"video", "unavailable">>, <<"private", "video">>, <<"deleted">>,
            <<"copyright">>, <<"removed">>, <<"account", "terminated">>,
            <<"channel", "not", "found">> >>)
    \/ Contains(text, <<"unsupported", "url">>) /\ ~Contains(text, <<"photo">>)

\* C5: when the acquisition tool's error text matches a permanent-failure
\* pattern, no further attempt follows that one, and the error download()
\* raises carries [PERMANENT].
C5_PermanentNotRetried ==
    (/\ last.tool.kind = "DownloadError"
     /\ SpecPermanent(LastToolText)
     /\ ~(Contains(LastToolText, <<"unsupported", "url">>)
            /\ Contains(LastToolText, <<"photo">>))) =>
        /\ dpc # "tier2"
        /\ dpc # "returned"
        /\ dpc = "raised" => Marked(derr[1].msg, "[PERMANENT]")

\* C6: when the attempt fails for a rate limit or an authentication problem
\* (and for no permanent reason), the error download() raises carries
\* [RETRYABLE].
C6_RetryableMarked ==
    (/\ dpc = "raised"
     /\ last.tool.kind = "DownloadError"
     /\ ~SpecPermanent(LastToolText)
     /\ ~Contains(LastToolText, <<"unsupported", "url">>)
     /\ \/ Contains(LastToolText, <<"rate-limit">>)
        \/ Contains(LastToolText, <<"too", "many", "requests">>)
        \/ Contains(LastToolText, <<"login", "required">>)
        \/ Contains(LastToolText, <<"sign", "in">>)) =>
        Marked(derr[1].msg, "[RETRYABLE]")

\* The image files among those the gallery tool left in the output directory.
Images(found) == {p \in found : p.ext \in {"jpg", "jpeg", "png", "webp"}}

SortedByFilename(s) == \A i, j \in DOMAIN s : i < j => PathLess(s[i], s[j])

\* C7: a tool error naming both 'unsupported url' and 'photo' is never
\* classified permanent; the gallery tool decides the attempt: when it exits
\* with 0 or 4 and left at least one image, the attempt returns a result with no
\* video path and the images as a non-empty list sorted by filename, and in
\* every other case it raises an error.
C7_CarouselFallback ==
    (/\ last.tool.kind = "DownloadError"
     /\ Contains(LastToolText, <<"unsupported", "url">>)
     /\ Contains(LastToolText, <<"photo">>)) =>
        LET g == last.tool.gallery
            r == last.ret.value IN
        /\ g.kind # "none"
        /\ IF g.kind = "exit" /\ g.rc \in {0, 4} /\ Images(g.found) # {}
           THEN /\ last.ret.tag = "return"
                /\ r.video_path = None
                /\ r.photo_paths # None
                /\ r.photo_paths[1] # <<>>
                /\ SortedByFilename(r.photo_paths[1])
                /\ {r.photo_paths[1][i] : i \in DOMAIN r.photo_paths[1]} = Images(g.found)
           ELSE /\ last.ret.tag = "raise"
                /\ ~Marked(r.msg, "[PERMANENT]")

C7_Witness ==
    /\ dpc = "returned"
    /\ last.tool.kind = "DownloadError"
    /\ Contains(LastToolText, <<"unsupported", "url">>)
    /\ Contains(LastToolText, <<"photo">>)
    /\ last.tool.gallery.rc = 4
    /\ Cardinality(Images(last.tool.gallery.found)) >= 2
    /\ Images(last.tool.gallery.found) # last.tool.gallery.found
    /\ RGlob(last.tool.gallery.listing, "jpg")[1].name # 1
    /\ dresult[1].video_path = None
    /\ Len(dresult[1].photo_paths[1]) >= 2

\* C8: every result download() returns has exactly one of a video path and a
\* non-empty photo list: never both, never neither.
C8_ExactlyOneKind ==
    dpc = "returned" =>
        LET r == dresult[1]
            has_video == r.video_path # None
            has_photos == r.photo_paths # None /\ r.photo_paths[1] # <<>> IN
        /\ has_video # has_photos
        /\ is_video(r) # is_photo_carousel(r)
        /\ has_video => r.photo_paths = None

C8_Witness ==
    /\ dpc = "returned"
    /\ ydlCalls = 2
    /\ is_photo_carousel(dresult[1])
    /\ ~is_video(dresult[1])


\* ===================================================================
\* Properties of analyze_recipe_from_url(), checked under Spec
\* ===================================================================

\* C9: with cleanup=True the workspace no longer exists once the call has
\* returned or raised, whichever stage failed; with cleanup=False the run never
\* removes it.
C9_WorkspaceRemoved ==
    /\ (ppc = "done" /\ args.cleanup /\ temp_dir # None) => ~tempExists
    /\ (~args.cleanup /\ temp_dir # None) => tempExists

\* C9 as the code has it: with cleanup=True, once the call has returned or
\* raised, whichever stage failed, shutil.rmtree has been called once on the
\* workspace, and the workspace is gone unless that call itself failed; with
\* cleanup=False the run never removes it. Before the finally block the
\* workspace stays in place either way.
C9_WorkspaceRemovedUnlessRmtreeFails ==
    /\ (ppc = "done" /\ args.cleanup /\ temp_dir # None) =>
            /\ calls.rmtree = 1
            /\ tempExists <=> calls.rmtree_failed = 1
    /\ (~args.cleanup /\ temp_dir # None) => (tempExists /\ calls.rmtree = 0)
    /\ (ppc # "done" /\ temp_dir # None) => (tempExists /\ calls.rmtree = 0)

C9_Witness ==
    /\ ppc = "done"
    /\ args.cleanup
    /\ temp_dir # None
    /\ outcome.tag = "raise"
    /\ calls.vision = 1
    /\ calls.rmtree = 1
    /\ ~tempExists

EnvelopeKeys == {"name", "ingredients", "steps", "thumbnail_url", "metadata"}

MetadataKeys == {"llm_usage", "content_type", "extraction_method", "video_info"}

CompleteEnvelope(e) ==
    /\ EnvelopeKeys \subseteq DOMAIN e
    /\ e["ingredients"].t = "list"
    /\ e["steps"].t = "list"
    /\ e["metadata"].t = "dict"
    /\ DOMAIN e["metadata"].meta = MetadataKeys

\* C10: what the call returns is a complete envelope: name, list-typed
\* ingredients and steps, thumbnail_url, and metadata holding llm_usage,
\* content_type, extraction_method and video_info. When a stage fails nothing
\* is returned, and the exception of that stage, that one only, reaches the
\* caller.
C10_CompleteEnvelopeOrException ==
    /\ outcome.tag = "return" =>
           /\ ppc = "done"
           /\ pending = None
           /\ CompleteEnvelope(outcome.value)
    /\ ppc = "done" =>
           /\ outcome.tag \in {"return", "raise"}
           /\ pending # None => outcome = Raise(pending[1])
           /\ pending = None => outcome.tag = "return"
    /\ pending # None => loc.ret = None

C10_Witness ==
    /\ ppc = "done"
    /\ outcome.tag = "return"
    /\ CompleteEnvelope(outcome.value)
    /\ outcome.value["metadata"].meta.content_type = "photo_carousel"
    /\ outcome.value["thumbnail_url"].url # None


\* The download of this run has returned a video or a photo carousel.
DownloadSucceeded ==
    calls.download = 1 /\ (loc.video_path # None \/ loc.photo_paths # None)

NoFramesError == ValueError(<<"No", "frames", "extracted", "from", "video">>)

\* What C11 says of a failed download or an empty extraction: the vision model
\* is never invoked in that run.
NoVisionAfterFailure ==
    /\ (calls.download = 1 /\ ppc \in {"finally", "done"} /\ ~DownloadSucceeded) =>
           calls.vision = 0
    /\ pending = Some(NoFramesError) => calls.vision = 0

\* C11: within one run the stages are strictly sequential: frame extraction
\* starts only after the download completed successfully, and the vision model
\* is invoked only after extraction produced a non-empty frame set; after a
\* failed download or an empty extraction the vision model is never invoked.
C11_StrictlySequential ==
    /\ calls.extract >= 1 => DownloadSucceeded
    /\ calls.vision >= 1 => (calls.extract = 1 /\ loc.all_frames # <<>>)
    /\ NoVisionAfterFailure

\* C11 as the code has it: frame extraction from a file starts only after the
\* download returned a video; the vision model is invoked only on a non-empty
\* frame set, which is what that extraction produced, or the photos of a
\* downloaded carousel (no extraction is run), or, with use_streaming, the
\* frames taken from the stream (no download is made); each stage runs at most
\* once, and after a failed download or an empty extraction the vision model is
\* never invoked.
C11_SequentialStages ==
    /\ calls.extract >= 1 =>
           (DownloadSucceeded /\ loc.video_path # None /\ calls.probe = 1)
    /\ calls.vision >= 1 =>
           /\ loc.all_frames # <<>>
           /\ \/ calls.extract = 1 /\ DownloadSucceeded
              \/ /\ calls.extract = 0 /\ DownloadSucceeded
                 /\ loc.photo_paths = Some(loc.all_frames)
              \/ /\ calls.extract = 0 /\ calls.download = 0
                 /\ args.use_streaming /\ loc.use_streaming /\ calls.streaming = 1
    /\ calls.download <= 1 /\ calls.extract <= 1 /\ calls.vision <= 1
    /\ NoVisionAfterFailure

C11_Witness ==
    /\ ppc = "done"
    /\ calls.download = 1
    /\ calls.extract = 1
    /\ calls.vision = 1
    /\ loc.all_frames # <<>>
    /\ outcome.tag = "return"

\* C12: for every url that is empty or starts with neither http:// nor
\* https://, whatever the other arguments, the run raises ValueError 'Invalid
\* URL' and has invoked no acquisition tool, credential lookup, media tool or
\* vision model before. (Runs whose workspace could not be created are left
\* aside.)
C12_InvalidUrlRaisedFirst ==
    (InvalidUrl(args.url) /\ temp_dir # None) =>
        /\ calls.streaming = 0 /\ calls.ydl = 0 /\ calls.lookups = 0
        /\ calls.probe = 0 /\ calls.extract = 0 /\ calls.vision = 0
        /\ ppc = "done" => outcome = Raise(ValueError(MsgInvalidUrl(args.url)))


\* ===================================================================
\* Properties of APIKeyRotator, checked under SpecRotator and SpecThreads
\* ===================================================================

\* The number of configured keys that are valid: not empty after trimming.
RECURSIVE ValidCount(_)
ValidCount(pool) ==
    IF pool = <<>> THEN 0
    ELSE (IF Strip(Head(pool)) # <<>> THEN 1 ELSE 0) + ValidCount(Tail(pool))

\* The positions handed out by the calls i .. i+n-1 of the history.
WindowPositions(i, n) == {hist[j].pos : j \in i..(i + n - 1)}

\* C13: with a pool of k valid keys and calls made one after the other, any k
\* consecutive get_next() calls return the k keys exactly once each, in the
\* order of the pool (each call returns the key after the one before it,
\* cyclically), and the call after them returns the same key as the first of
\* them; this holds for every k >= 1 and from every point of the history.
C13_RoundRobin ==
    rot.state = "ready" =>
        LET k == Len(rot.keys)
            n == Len(hist)
        IN  /\ k = ValidCount(rot.pool) /\ k >= 1
            /\ \A i \in 1..n : hist[i].key = rot.keys[hist[i].pos + 1]
            /\ \A i \in 1..(n - 1) : hist[i + 1].pos = (hist[i].pos + 1) % k
            /\ \A i \in 1..(n - k + 1) : WindowPositions(i, k) = 0..(k - 1)
            /\ \A i \in 1..(n - k) :
                   hist[i + k].pos = hist[i].pos /\ hist[i + k].key = hist[i].key

\* A pool of three valid keys, one of them padded, has been gone through once
\* and the fourth call has returned.
C13_Witness ==
    /\ rot.state = "ready" /\ Len(rot.keys) = 3 /\ Len(hist) = 4
    /\ \E i \in 1..Len(rot.pool) : rot.pool[i] # Strip(rot.pool[i])
    /\ hist[4].key = hist[1].key
    /\ \A t \in DOMAIN th : th[t].pc = "idle"

\* The number of returned calls that were handed position p.
HandedOut(p) == Cardinality({i \in 1..Len(hist) : hist[i].pos = p})

\* The number of times position p occurs among n consecutive positions of the
\* rotation of k keys that starts at position 0.
Consecutive(p, n, k) == Cardinality({j \in 0..(n - 1) : j % k = p})

\* C14: when two callers use get_next() of one rotator concurrently, every key
\* acquisition is an atomic read-then-advance: once the n calls have
\* returned, the cursor has advanced by exactly n positions (mod k) and the n
\* keys handed out are n consecutive positions of the rotation, none handed
\* out twice while another is skipped.
C14_AtomicReadAdvance ==
    (rot.state = "ready" /\ \A t \in DOMAIN th : th[t].pc = "idle") =>
        LET k == Len(rot.keys)
            n == Len(hist)
        IN  /\ rot.index = n % k
            /\ \A p \in 0..(k - 1) : HandedOut(p) = Consecutive(p, n, k)


\* ===================================================================
\* Properties of the provider chain and the retry, checked under SpecAnalyze
\* ===================================================================

\* The log entry is an invocation of a provider's model.
IsInvocation(e) == e.what \in {"ok", "invoke_failed"}

\* The log entry is a failure of a provider: of its factory or of its model.
IsFailure(e) == e.what \in {"create_failed", "invoke_failed"}

\* Every provider of the chain before position q has failed in the attempt,
\* among the first j - 1 entries of the log.
EarlierFailed(attempt, q, j) ==
    \A r \in 1..(q - 1) :
        \E i \in 1..(j - 1) :
            an.log[i].attempt = attempt /\ an.log[i].pos = r /\ IsFailure(an.log[i])

\* Every provider of the chain has failed in the attempt.
AllFailed(attempt) ==
    EarlierFailed(attempt, Len(mgr.providers) + 1, Len(an.log) + 1)

\* C15: in one inference attempt the providers' models are invoked in chain
\* order starting with the primary; a provider is invoked only if every
\* provider before it in the chain has failed in this attempt; the first
\* successful response is returned and no later provider is invoked; if every
\* provider of the chain fails, the attempt fails with an error.
C15_FallbackOrder ==
    an.pc \in {"attempt", "invoke", "parse", "done"} =>
        /\ \A j \in 1..Len(an.log) :
               LET e == an.log[j] IN
               /\ e.pos \in 1..Len(mgr.providers) /\ e.name = mgr.providers[e.pos]
               /\ IsInvocation(e) => EarlierFailed(e.attempt, e.pos, j)
               /\ IsInvocation(e) =>
                      \A i \in 1..(j - 1) :
                          (an.log[i].attempt = e.attempt /\ IsInvocation(an.log[i]))
                              => an.log[i].pos < e.pos
               /\ e.what = "ok" =>
                      /\ j = Len(an.log)
                      /\ an.pc \in {"parse", "done"} /\ an.response # None
        /\ an.response # None =>
               (an.log # <<>> /\ an.log[Len(an.log)].what = "ok")
        /\ \A a \in 1..an.attempt :
               AllFailed(a) =>
                   \/ an.attempt > a
                   \/ /\ an.pc = "done" /\ an.outcome.tag = "raise"
                      /\ an.outcome.value.type = "Exception"
                      /\ an.outcome.value.attempt = a

\* The primary and the first fallback have failed and the second fallback has
\* answered, in a chain of three providers.
C15_Witness ==
    /\ an.pc = "parse" /\ Len(mgr.providers) = 3 /\ Len(an.log) = 3
    /\ an.log[1].what = "invoke_failed" /\ an.log[1].pos = 1
    /\ an.log[2].what = "invoke_failed" /\ an.log[2].pos = 2
    /\ an.log[3].what = "ok" /\ an.log[3].pos = 3

\* The names of the configured priority list, trimmed and lower-cased.
PriorityNames ==
    LET raw == Split(IF mgr.args.provider_priority # None
                     THEN mgr.args.provider_priority
                     ELSE mgr.env.LLM_PROVIDER_PRIORITY, ",")
    IN  [i \in 1..Len(raw) |-> LowerText(Strip(raw[i]))]

\* The configured key list of a provider, as one string.
ConfiguredKeys(name) ==
    LET given == CASE name = <<"gemini">> -> mgr.args.gemini_keys
                   [] name = <<"grok">> -> mgr.args.grok_keys
                   [] name = <<"openai">> -> mgr.args.openai_keys
                   [] OTHER -> None
        env == CASE name = <<"gemini">> -> mgr.env.GEMINI_API_KEYS
                 [] name = <<"grok">> -> mgr.env.GROK_API_KEYS
                 [] name = <<"openai">> -> mgr.env.OPENAI_API_KEYS
                 [] OTHER -> None
    IN  IF given # None THEN given ELSE env

\* The provider has at least one key that is not empty after trimming.
HasKey(name) ==
    LET keys == Split(ConfiguredKeys(name), ",") IN
    \E i \in 1..Len(keys) : Strip(keys[i]) # <<>>

\* The priority list restricted to the providers with a key, in order.
ExpectedChain ==
    LET kept == SelectSeq(PriorityNames, HasKey) IN
    [i \in 1..Len(kept) |-> kept[i][1]]

\* C16: the active chain built at manager construction is the configured
\* priority list, in order, restricted to the providers that have at least
\* one key that is not empty after trimming; a provider whose keys are all
\* empty or blank is left out; if the chain is empty, construction raises.
C16_ActiveChain ==
    /\ mgr.state = "ready" =>
           /\ mgr.providers = ExpectedChain /\ mgr.providers # <<>>
           /\ \A i \in 1..Len(mgr.providers) :
                  LET r == mgr.key_rotators[mgr.providers[i]] IN
                  /\ r # None /\ r[1].keys # <<>>
                  /\ \A k \in 1..Len(r[1].keys) :
                         r[1].keys[k] # <<>> /\ r[1].keys[k] = Strip(r[1].keys[k])
    /\ mgr.state = "invalid" => ExpectedChain = <<>>
    /\ (mgr.state = "invalid" /\ an.pc = "done") => an.outcome.tag = "raise"

\* A manager whose first provider of the priority has only blank keys: the
\* chain is the other provider of the priority alone.
C16_Witness ==
    /\ mgr.state = "ready"
    /\ mgr.args.provider_priority = <<"grok", ",", "claude", ",", "grok">>
    /\ mgr.args.grok_keys = <<" ", "k1", ",", "k2">>
    /\ mgr.args.gemini_keys = <<" ", ",", " ">> /\ mgr.env.GEMINI_API_KEYS = <<>>
    /\ mgr.providers = <<"grok", "grok">>

\* The attempts that were made: those the log has entries of and those that
\* failed before a model was asked for.
AttemptsMade == {an.log[i].attempt : i \in 1..Len(an.log)} \cup an.encode_failed

\* The attempt has got no response: it has raised.
Raised(attempt) ==
    \A i \in 1..Len(an.log) : an.log[i].attempt = attempt => IsFailure(an.log[i])

\* C17: the inference call is attempted at most max_retries times (3 by
\* default); an attempt that raises is followed by another one until one
\* succeeds, whose result is used with no further attempt, or max_retries
\* attempts have failed, and then the exception of the last attempt
\* propagates; a response that was received and fails validation never
\* starts another attempt.
C17_BoundedRetry ==
    an.pc \in {"attempt", "invoke", "parse", "done"} =>
        /\ an.attempt <= an.max_retries
        /\ AttemptsMade \subseteq 1..an.attempt
        /\ \A a \in 1..(an.attempt - 1) : a \in AttemptsMade /\ Raised(a)
        /\ (an.pc = "done" /\ an.attempt >= 1 /\ an.outcome.tag = "raise"
               /\ an.response = None) =>
               /\ an.outcome.value.type \in {"Exception", "OSError"}
               /\ an.outcome.value.attempt = an.attempt
               /\ an.attempt = an.max_retries
        /\ an.response # None =>
               /\ an.pc \in {"parse", "done"}
               /\ an.log[Len(an.log)].what = "ok"
               /\ an.log[Len(an.log)].attempt = an.attempt
               /\ an.pc = "done" =>
                      IF ValidateRecipeData(ParseJsonResponse(an.response[1])) = None
                      THEN an.outcome = Return(ParseJsonResponse(an.response[1]))
                      ELSE /\ an.outcome.tag = "raise"
                           /\ an.outcome.value.type \in {"ValueError", "TypeError"}

\* The first of three allowed attempts has failed, the second has got a
\* response that fails validation, and the call has raised with no third
\* attempt.
C17_Witness ==
    /\ an.pc = "done" /\ an.max_retries = 3 /\ an.attempt = 2
    /\ AttemptsMade = {1, 2}
    /\ an.response # None /\ an.outcome.tag = "raise"
    /\ an.outcome.value.type = "ValueError"


\* ===================================================================
\* Properties of the response parser and validator, checked under SpecParse
\* ===================================================================

RECURSIVE SameValue(_, _)
\* Equality of decoded values: lists item by item, objects key by key.
SameValue(a, b) ==
    /\ a.t = b.t
    /\ CASE a.t = "list" ->
              /\ Len(a.v) = Len(b.v)
              /\ \A i \in 1..Len(a.v) : SameValue(a.v[i], b.v[i])
         [] a.t = "dict" ->
              /\ DOMAIN a.v = DOMAIN b.v
              /\ \A k \in DOMAIN a.v : SameValue(a.v[k], b.v[k])
         [] OTHER -> a.v = b.v

\* The value has the field and it is a list with at least one item.
NonEmptyList(value, k) ==
    /\ value.t = "dict" /\ k \in DOMAIN value.v
    /\ value.v[k].t = "list" /\ Len(value.v[k].v) >= 1

\* The response text is the JSON of a value, bare or inside one code fence.
PlainJson == pj.input.k # 0 /\ pj.input.wrap \in {"none", "json", "plain", "tight", "padded"}

\* C18: for every response text the parser returns without raising; when the
\* text without its fences decodes as JSON the decoded value is returned, and
\* otherwise the one fixed fallback recipe, which has a name and non-empty
\* lists of ingredients and steps; a response that is no JSON, such as a
\* refusal, does not make the analysis fail.
C18_ParserNeverRaises ==
    pj.pc \in {"parsed", "done"} =>
        /\ pj.result.tag = "return"
        /\ pj.stripped = StripFences(pj.input.text)
        /\ IF JsonLoads(pj.stripped).tag = "return"
           THEN SameValue(pj.result.value, JsonLoads(pj.stripped).value)
           ELSE /\ SameValue(pj.result.value, FallbackValue)
                /\ "name" \in DOMAIN pj.result.value.v
                /\ NonEmptyList(pj.result.value, "ingredients")
                /\ NonEmptyList(pj.result.value, "steps")
                /\ pj.pc = "done" => pj.outcome.tag = "return"
        /\ PlainJson => SameValue(pj.result.value, (ValidRecipes \o InvalidValues)[pj.input.k])
        /\ pj.input.k = 0 => SameValue(pj.result.value, FallbackValue)

\* The refusal has gone through the parser and the validator: the fallback
\* recipe is the result.
C18_Witness ==
    /\ pj.pc = "done" /\ pj.input.text = <<"I", " ", "can't", " ", "help", " ", "with", " ", "that.">>
    /\ pj.outcome.tag = "return" /\ SameValue(pj.outcome.value, FallbackValue)

\* The field is absent from the data.
Absent(data, k) == data.t # "dict" \/ ~(k \in DOMAIN data.v)

\* The field is present and no list.
NotAList(data, k) == ~Absent(data, k) /\ data.v[k].t # "list"

\* C19: validate raises exactly when name, ingredients or steps is absent from
\* the data, or ingredients or steps is present but no list; it does not raise
\* when ingredients or steps is an empty list, and it leaves the data as it was.
C19_ValidateExactly ==
    pj.pc = "done" =>
        LET data == pj.result.value IN
        /\ pj.outcome.tag = "raise" <=>
              \/ Absent(data, "name") \/ Absent(data, "ingredients")
              \/ Absent(data, "steps")
              \/ NotAList(data, "ingredients") \/ NotAList(data, "steps")
        /\ pj.outcome.tag \in {"raise", "return"}
        /\ pj.after # None /\ SameValue(pj.after[1], data)
        /\ pj.outcome.tag = "return" => SameValue(pj.outcome.value, data)

\* A recipe whose ingredients and steps are empty lists has been accepted.
C19_Witness ==
    /\ pj.pc = "done" /\ pj.outcome.tag = "return"
    /\ pj.result.value.v["ingredients"].v = <<>>
    /\ pj.result.value.v["steps"].v = <<>>

\* C20: for every valid recipe R, parsing the JSON dump of R inside a code
\* fence, with or without the json tag, gives a value equal to R, and parsing
\* the bare dump gives the same value; stripping the fences of the stripped
\* text changes nothing.
C20_RoundTrip ==
    (pj.pc \in {"parsed", "done"} /\ PlainJson /\ pj.input.k <= Len(ValidRecipes)) =>
        /\ pj.result.tag = "return"
        /\ SameValue(pj.result.value, ValidRecipes[pj.input.k])
        /\ SameValue(pj.result.value,
                     ParseJsonText(Dump(ValidRecipes[pj.input.k],
                                        pj.input.style, 0)).value)
        /\ StripFences(pj.stripped) = pj.stripped
        /\ pj.stripped = Dump(ValidRecipes[pj.input.k], pj.input.style, 0)

\* The recipe with fences inside its strings, dumped with indentation inside a
\* fence with the json tag, has come back as it was.
C20_Witness ==
    /\ pj.pc = "parsed" /\ pj.input.k = 2 /\ pj.input.wrap = "json"
    /\ pj.input.style = "indent"
    /\ pj.result.tag = "return" /\ SameValue(pj.result.value, ValidRecipes[2])

\* --------------------------------------------------------------- C21, C22

\* C21: once the scope of get_cookies_file has ended, by normal completion, by
\* an exception raised inside the scope or by an early return, no temporary
\* credential file created by the call exists.
C21_FileGoneAfterScope ==
    ck.pc = "done" => ~ck.exists

\* C22: entering get_cookies_file never raises; a platform with no mapped
\* credential file yields None without any fetch, and a mapped platform
\* yields None whenever the fetch, the decoding or the writing failed.
C22_AcquireNeverRaises ==
    ck.pc \in {"scope", "done"} =>
        /\ ck.outcome # "acquire_raised"
        /\ ck.platform \notin {"youtube", "instagram"} =>
               (ck.fetches = 0 /\ ck.path = None)
        /\ (ck.platform \in {"youtube", "instagram"} /\ ck.step # "ok") =>
               ck.path = None

\* The scope is entered with None after the decoding of the fetched youtube
\* cookies failed.
C22_Witness ==
    /\ ck.pc = "scope" /\ ck.platform = "youtube" /\ ck.step = "decode_error"
    /\ ck.path = None /\ ck.fetches = 1

\* ---------------------------------------------------------------------- C23

\* C23: when analyze_frames returns or raises, close() has been called on
\* every image handle it opened, the thumbnail and each frame: none is left
\* open after a later frame failed to load, after the inference call failed
\* on all retries or after validation failed; a close that fails leaves the
\* handles after it closed all the same, and the finally block leaves what
\* the try block returned or raised as it was. A call that raises before the
\* try block has opened no handle.
C23_HandlesClosed ==
    [][/\ (an'.pc = "done" /\ ~an'.in_try) => (an'.images = <<>> /\ an'.dropped = <<>>)
       /\ (an.pc = "done" /\ an'.pc = "returned") =>
              /\ an'.outcome = an.outcome
              /\ Len(an'.images) + Len(an'.dropped) =
                     (IF an.thumb # "none" /\ LoadThumbnail(an.thumb).opened THEN 1 ELSE 0)
                         + (IF an.bad = 0 THEN an.frames ELSE an.bad - 1)
              /\ \A k \in DOMAIN an'.images :
                     /\ an.images[k].state = "open"
                     /\ an'.images[k].state \in {"closed", "close_failed"}
              /\ \A k \in DOMAIN an'.dropped :
                     an'.dropped[k].state \in {"closed", "close_failed"}]_vars

\* ---------------------------------------------------------- C24, C25, C26

\* C24: for every integer duration d >= 0 the planned frame count is the one
\* of the documented table: 8/12/15 below 300 s, 10/18/24 below 600 s,
\* 12/24/36 below 900 s, and from 900 s on 16, min(36, max(24, d div 30)) and
\* min(48, max(36, d div 20)) for fast/balanced/accurate; balanced gives 12 for
\* 185 s, 24 for 620 s and 36 for 1200 s.
C24_PlanTable ==
    (fx.pc = "done" /\ fx.op = "plan") =>
        LET d == fx.duration_seconds
            row == IF d < 300 THEN <<8, 12, 15>>
                   ELSE IF d < 600 THEN <<10, 18, 24>>
                   ELSE IF d < 900 THEN <<12, 24, 36>>
                   ELSE <<16,
                          IF d \div 30 < 24 THEN 24 ELSE IF d \div 30 > 36 THEN 36 ELSE d \div 30,
                          IF d \div 20 < 36 THEN 36 ELSE IF d \div 20 > 48 THEN 48 ELSE d \div 20>>
            col == CASE fx.mode = "fast" -> 1 [] fx.mode = "balanced" -> 2
                     [] fx.mode = "accurate" -> 3
        IN  /\ fx.planned = row[col]
            /\ (fx.mode = "balanced" /\ d = 185) => fx.planned = 12
            /\ (fx.mode = "balanced" /\ d = 620) => fx.planned = 24
            /\ (fx.mode = "balanced" /\ d = 1200) => fx.planned = 36

\* A 1200-second video in balanced mode was planned to 36 frames.
C24_Witness ==
    /\ fx.pc = "done" /\ fx.op = "plan" /\ fx.mode = "balanced"
    /\ fx.duration_seconds = 1200 /\ fx.planned = 36

\* C25: for every mode and all durations 0 <= d1 <= d2 the plan of d1 is at
\* most the plan of d2, and no plan exceeds the cap of its mode: 16 for fast,
\* 36 for balanced, 48 for accurate.
C25_MonotoneAndCapped ==
    (fx.pc = "done" /\ fx.op = "plan") =>
        /\ fx.planned <= (CASE fx.mode = "fast" -> 16 [] fx.mode = "balanced" -> 36
                            [] fx.mode = "accurate" -> 48)
        /\ \A d1 \in 0..fx.duration_seconds :
               calculate_optimal_frame_count(d1, fx.mode) <= fx.planned

\* A 960-second video in accurate mode reached the cap of 48 frames.
C25_Witness ==
    /\ fx.pc = "done" /\ fx.op = "plan" /\ fx.mode = "accurate"
    /\ fx.duration_seconds = 960 /\ fx.planned = 48

\* C26: for every list of n frames and target t >= 1, the selection is the
\* list itself when n <= t, and otherwise has exactly t frames, the i-th of
\* them (i in 0..t-1) being the frame at index floor(i*n/t).
C26_EvenlySpaced ==
    (fx.pc = "done" /\ fx.op = "select") =>
        IF fx.n <= fx.count
        THEN fx.selected = [k \in 1..fx.n |-> k - 1]
        ELSE /\ Len(fx.selected) = fx.count
             /\ \A i \in 0..(fx.count - 1) :
                    fx.selected[i + 1] = (i * fx.n) \div fx.count

\* ---------------------------------------------------------------------- C27

\* C27: every frame list a frame sampler returns, for each strategy, is in
\* the order of the timestamps of its frames.
C27_TemporallySorted ==
    (fx.pc = "done" /\ fx.op = "sample" /\ fx.ret.tag = "return") =>
        \A k \in 1..(Len(fx.ret.value) - 1) :
            fx.ret.value[k].ts.num * fx.ret.value[k + 1].ts.den
                <= fx.ret.value[k + 1].ts.num * fx.ret.value[k].ts.den

\* ---------------------------------------------------------------------- C28

\* C28: the provider field of the usage metadata of an analysis names the
\* provider whose model produced the response, the one of the invocation that
\* succeeded, also when the primary provider failed and a fallback answered.
C28_ProviderIsResponder ==
    (an.pc \in {"parse", "done", "returned"} /\ an.usage_metadata # None) =>
        /\ an.log[Len(an.log)].what = "ok"
        /\ an.usage_metadata[1].provider = an.log[Len(an.log)].name

\* ----------------------------------------------------------------- C29, C30

\* C29: while a pipeline run started by the URL-analysis endpoint or by the
\* active-mode worker is in one of its blocking stages, the event loop of the
\* serving host can start the handler of a request that is waiting, a health
\* check or a second analysis.
C29_LoopServesOthers ==
    \A r \in 1..MaxRequests :
        (/\ host.pc = "serving" /\ host.reqs[r].pc = "waiting" /\ NextOfEndpoint(r)
         /\ \/ host.worker.pc = "job"
            \/ \E q \in 1..MaxRequests : /\ host.reqs[q].pc = "pipeline"
                                           /\ host.reqs[q].kind = "analyze-from-url")
            => ENABLED RequestStart(r)

\* C30: in active mode the shutdown is complete only when the cancelled worker
\* task is done; the worker ends by its cancellation only, at one of its
\* awaits and after task.cancel(), never inside a pipeline run: a run that
\* was in flight has completed or failed when the task is done.
C30_CancelledAndAwaited ==
    /\ []((host.pc = "stopped" /\ host.mode = "active") =>
              (host.worker.pc = "cancelled" /\ host.worker.must_cancel))
    /\ [](host.worker.pc = "cancelled" => host.worker.last_run # "in_flight")
    /\ [][(host.worker.pc # "cancelled" /\ host'.worker.pc = "cancelled") =>
              /\ host.worker.pc \in {"created", "poll", "submit", "sleep"}
              /\ host.worker.must_cancel
              /\ host.pc = "await_task"]_vars
    /\ [][(host.worker.pc = "job" /\ host'.worker # host.worker) =>
              \/ host'.worker.pc = "job" /\ host'.worker.jobs = host.worker.jobs
                 /\ host'.worker.stage = host.worker.stage + 1
              \/ host.worker.stage = Len(PipelineStages)
                 /\ host'.worker.last_run = "completed"
              \/ host.worker.jobs[1].job_id \in host'.worker.processed_failures
                 /\ host'.worker.last_run \in {"failed", "in_flight"}]_vars

\* The host was told to shut down while the worker was inside a pipeline run;
\* the run completed, the task was cancelled at the await that followed, and
\* the shutdown is complete.
C30_Witness ==
    /\ host.pc = "stopped" /\ host.mode = "active" /\ host.sig_at = "job"
    /\ host.worker.pc = "cancelled" /\ host.worker.last_run = "completed"

\* ---------------------------------------------------------------------- C31

\* C31: when the metadata has a non-empty thumbnails list, the selection is
\* the url of the entry of the highest preference, a missing preference
\* counting as 0 and the earliest such entry winning; otherwise it is the
\* thumbnail member, and none when that is absent too.
C31_BestThumbnail ==
    (fx.pc = "done" /\ fx.op = "thumbnail") =>
        LET items == fx.info.items
            pref(k) == IF items[k].preference = None THEN 0 ELSE items[k].preference[1]
        IN  IF fx.info.kind = "list" /\ items # <<>>
            THEN \E k \in 1..Len(items) :
                    /\ \A j \in 1..Len(items) : pref(j) <= pref(k)
                    /\ \A j \in 1..(k - 1) : pref(j) < pref(k)
                    /\ fx.ret = items[k].url
            ELSE fx.ret = fx.info.thumbnail

\* Of three thumbnails the second and the third share the highest preference,
\* the first has none, and the url of the second was selected.
C31_Witness ==
    /\ fx.pc = "done" /\ fx.op = "thumbnail" /\ fx.info.kind = "list"
    /\ Len(fx.info.items) = 3
    /\ fx.info.items[1].preference = None
    /\ fx.info.items[2].preference = Some(5) /\ fx.info.items[3].preference = Some(5)
    /\ fx.info.items[2].url = Some(2) /\ fx.info.items[3].url = Some(3)
    /\ fx.ret = Some(2)

\* ---------------------------------------------------------------------- C32

\* The step is an inference attempt of analyze_frames as far as the network
\* wait or its failure: the call is at _api_call and the quick analysis
\* stands.
AttemptStep == an.pc = "attempt" /\ an'.quick = an.quick

\* The step is a get_primary_model call of an inference attempt of
\* analyze_frames.
AttemptCallsGetPrimaryModel == AttemptStep /\ an'.gpm_calls = an.gpm_calls + 1

\* The step is the get_primary_model call of a quick analysis.
QuickCallsGetPrimaryModel ==
    an'.quick.calls > an.quick.calls /\ an'.quick.get_model # "none"

\* C32: every get_primary_model call, one per inference attempt, moves the
\* cursor of every provider of the chain by one position modulo the size of
\* its pool, whether its model is invoked afterwards or not; no other step
\* moves a cursor, and no key pool ever changes.
C32_EveryCursorAdvances ==
    [][mgr.state = "ready" =>
          \A p \in ProviderNames :
              IF /\ AttemptStep \/ QuickCallsGetPrimaryModel
                 /\ \E i \in 1..Len(mgr.providers) : mgr.providers[i] = p
              THEN /\ mgr'.key_rotators[p][1].keys = mgr.key_rotators[p][1].keys
                   /\ mgr'.key_rotators[p][1].index =
                          (mgr.key_rotators[p][1].index + 1) % Len(mgr.key_rotators[p][1].keys)
              ELSE mgr'.key_rotators[p] = mgr.key_rotators[p]]_vars

\* C32, amended: get_primary_model is called once in every inference attempt
\* of analyze_frames, retries included, that has encoded its images, and not
\* at all in an attempt that fails before that; a quick analysis calls it
\* once when its thumbnail was loaded and encoded, and not at all otherwise.
\* Every call moves the cursor of a provider by one position modulo the size
\* of its pool for each entry of the provider in the chain that the call
\* reaches, whether the model of the entry is created and invoked afterwards
\* or not: a provider named twice in the priority is moved twice. The call
\* reaches every entry unless the construction of the primary model raised,
\* in which case it reaches the first entry only. No other step moves a
\* cursor, and no key pool ever changes.
C32_CursorsAdvance ==
    /\ [][mgr.state = "ready" =>
          LET called == AttemptCallsGetPrimaryModel \/ QuickCallsGetPrimaryModel
              primary_failed ==
                  IF AttemptCallsGetPrimaryModel
                  THEN /\ Len(an'.log) > Len(an.log)
                       /\ an'.log[Len(an.log) + 1].pos = 1
                       /\ an'.log[Len(an.log) + 1].what = "create_failed"
                  ELSE an'.quick.get_model = "create_failed"
              reached(p) == IF ~called THEN {}
                            ELSE {i \in 1..Len(mgr.providers) :
                                     mgr.providers[i] = p /\ (i = 1 \/ ~primary_failed)}
          IN  /\ \A p \in ProviderNames :
                   IF reached(p) = {}
                   THEN mgr'.key_rotators[p] = mgr.key_rotators[p]
                   ELSE /\ mgr'.key_rotators[p][1].keys = mgr.key_rotators[p][1].keys
                        /\ mgr'.key_rotators[p][1].index =
                               (mgr.key_rotators[p][1].index + Cardinality(reached(p)))
                                   % Len(mgr.key_rotators[p][1].keys)
              /\ AttemptStep =>
                   IF an.attempt \in an'.encode_failed
                   THEN an'.gpm_calls = an.gpm_calls
                   ELSE an'.gpm_calls = an.gpm_calls + 1
              /\ ~AttemptStep => an'.gpm_calls = an.gpm_calls
              /\ an'.quick.calls > an.quick.calls =>
                   (an'.quick.get_model = "none" <=>
                        /\ an'.quick.outcome.tag = "raise"
                        /\ an'.quick.outcome.value.type \in {"ValueError", "OSError"}
                        /\ an'.quick.models = <<>>)]_vars
    /\ [](an.pc \in {"attempt", "invoke", "parse", "done", "returned"} =>
             LET over == IF an.pc = "attempt" THEN an.attempt - 1 ELSE an.attempt IN
             /\ an.encode_failed \subseteq 1..over
             /\ an.gpm_calls = over - Cardinality(an.encode_failed)
             /\ an.pc \in {"invoke", "parse"} => an.attempt \notin an.encode_failed)

\* A provider of two keys is named twice in the chain. The quick analysis
\* has taken its models, which moved the cursor twice, and waits for the
\* answer; meanwhile the first attempt of analyze_frames failed to encode its
\* image and asked for no model, and the second attempt could not construct
\* its primary model, which moved the cursor once: the cursor is at the
\* second key.
C32_Witness ==
    /\ an.pc = "done" /\ an.attempt = 2 /\ an.encode_failed = {1} /\ an.gpm_calls = 1
    /\ an.quick.calls = 1 /\ an.quick.pc = "invoke" /\ Len(an.quick.models) = 2
    /\ Len(mgr.providers) = 2 /\ mgr.providers[1] = mgr.providers[2]
    /\ Len(an.log) = 1 /\ an.log[1].attempt = 2
    /\ an.log[1].pos = 1 /\ an.log[1].what = "create_failed"
    /\ Len(mgr.key_rotators[mgr.providers[1]][1].keys) = 2
    /\ mgr.key_rotators[mgr.providers[1]][1].index = 1

\* ----------------------------------------------------------------- C33, C34

\* C33: the scene strategy with a target t >= 1 and a detector that yields s
\* frames returns exactly t frames: for s > t the detector frames at the
\* indices floor(i*s/t), i < t; for s = t all detector frames; for s < t all
\* detector frames and t - s supplementary frames, taken at the times
\* j*duration/(t - s + 1), j = 1..t-s, each strictly between 0 and the
\* duration and strictly increasing.
C33_SceneCounts ==
    (fx.pc = "done" /\ fx.op = "sample" /\ fx.strategy = "scene" /\ fx.ffmpeg_ok) =>
        LET t == fx.target_count
            s == Cardinality(fx.scenes)
            detected == [k \in 1..s |->
                            FrameFile("scene", k,
                                      CHOOSE x \in fx.scenes :
                                          Cardinality({y \in fx.scenes : y < x}) = k - 1, 1)]
            frames == fx.ret.value
            extra == {k \in 1..Len(frames) : frames[k].kind = "uniform"}
        IN  /\ fx.ret.tag = "return"
            /\ Len(frames) = t
            /\ s > t => frames = [k \in 1..t |-> detected[((k - 1) * s) \div t + 1]]
            /\ s = t => frames = detected
            /\ s < t =>
                 /\ \A k \in 1..s : \E i \in 1..t : frames[i] = detected[k]
                 /\ Cardinality(extra) = t - s
                 /\ \A j \in 1..(t - s) : \E k \in extra :
                        /\ frames[k].idx = j - 1
                        /\ frames[k].ts.num * (t - s + 1) = j * fx.duration * frames[k].ts.den
                        /\ 0 < frames[k].ts.num
                        /\ frames[k].ts.num < fx.duration * frames[k].ts.den

\* C34: the hybrid strategy with a target t >= 1 and a media tool that
\* succeeds does not fail: it returns exactly t frames in the order of their
\* file names, floor(0.7*t) of them from the scene strategy and t - floor(0.7*t)
\* taken at uniform times.
C34_HybridNeverFails ==
    (fx.pc = "done" /\ fx.op = "sample" /\ fx.strategy = "hybrid" /\ fx.ffmpeg_ok) =>
        LET t == fx.target_count
            frames == fx.ret.value
            uniform == {k \in 1..Len(frames) : frames[k].kind = "hybrid_uniform"}
        IN  /\ fx.ret.tag = "return"
            /\ Len(frames) = t
            /\ frames = SortedFrames(frames)
            /\ Cardinality(uniform) = t - (7 * t) \div 10
            /\ fx.ret = Return(SortedFrames(
                            ExtractFramesBySceneDetection(fx.duration, fx.scenes,
                                                          (7 * t) \div 10).value
                            \o UniformFramesAtIntervals("hybrid_uniform", fx.duration,
                                                        t - (7 * t) \div 10)))

\* ---------------------------------------------------------------------- C35

\* C35: a run whose download has yielded a photo carousel has not probed a
\* video, planned a frame budget or sampled frames, the frame list handed to
\* the vision client is the photo path list itself, and a returned envelope
\* says content_type photo_carousel with duration 0; once the download has
\* yielded a video and the sampler is reached, the budget planner has been
\* consulted once if frame_count was not given and not at all if it was, and
\* the sampler is called with the strategy of the call.
C35_CarouselWithoutPlanning ==
    [](LET carousel == loc.photo_paths # None /\ loc.photo_paths[1] # <<>> IN
       /\ carousel =>
             /\ calls.probe = 0 /\ calls.plan = 0
             /\ calls.extract = 0 /\ calls.strategy = None
             /\ loc.all_frames = loc.photo_paths[1]
             /\ calls.vision >= 1 => calls.frames = loc.photo_paths[1]
             /\ outcome.tag = "return" =>
                   LET meta == outcome.value["metadata"].meta IN
                   /\ meta.content_type = "photo_carousel"
                   /\ meta.video_info.duration_seconds = Some(0)
       /\ (ppc = "extract" \/ calls.extract >= 1) =>
             /\ ~carousel /\ loc.video_path # None /\ calls.probe = 1
             /\ args.frame_count = None => calls.plan = 1
             /\ args.frame_count # None =>
                   calls.plan = 0 /\ loc.frame_count = args.frame_count
       /\ calls.extract >= 1 =>
             calls.strategy = Some(args.frame_selection_strategy))

\* C35, amended: once the download has yielded a photo carousel, the run
\* neither probes the file nor plans a frame budget nor samples frames: the
\* planner has been consulted before only by a streaming attempt that was
\* asked for without a frame_count, got the metadata of the stream and fell
\* back to the download, and then once. The frame list handed to the vision
\* client is the photo path list itself, and a returned envelope says
\* content_type photo_carousel with duration 0. Once the download has yielded
\* a video and the sampler is reached, the file has been probed once, the
\* budget planner has been consulted once in the run if frame_count was not
\* given (by the streaming attempt if it got that far, after the probe
\* otherwise) and not at all if it was, and the sampler is called with the
\* strategy of the call.
C35_CarouselAndVideoBranches ==
    /\ [](LET carousel == loc.photo_paths # None /\ loc.photo_paths[1] # <<>> IN
          /\ carousel =>
                /\ calls.probe = 0 /\ calls.extract = 0 /\ calls.strategy = None
                /\ calls.plan <= 1
                /\ calls.plan = 1 =>
                      /\ args.use_streaming /\ ~loc.use_streaming /\ calls.streaming = 1
                      /\ args.frame_count = None
                /\ loc.all_frames = loc.photo_paths[1]
                /\ calls.vision >= 1 => calls.frames = loc.photo_paths[1]
                /\ outcome.tag = "return" =>
                      LET meta == outcome.value["metadata"].meta IN
                      /\ meta.content_type = "photo_carousel"
                      /\ meta.video_info.duration_seconds = Some(0)
          /\ (ppc = "extract" \/ calls.extract >= 1) =>
                /\ ~carousel /\ loc.video_path # None /\ calls.probe = 1
                /\ args.frame_count = None => calls.plan = 1
                /\ args.frame_count # None =>
                      calls.plan = 0 /\ loc.frame_count = args.frame_count
          /\ calls.extract >= 1 =>
                calls.strategy = Some(args.frame_selection_strategy))
    /\ [][(loc'.photo_paths # None /\ loc'.photo_paths[1] # <<>>) =>
             calls'.plan = calls.plan]_vars

\* A run that asked for streaming, fell back to the download after the budget
\* was planned, got a carousel of two photos and returned its envelope.
C35_Witness ==
    /\ ppc = "done" /\ outcome.tag = "return"
    /\ args.use_streaming /\ calls.streaming = 1 /\ calls.plan = 1
    /\ loc.photo_paths # None /\ Len(loc.photo_paths[1]) >= 2
    /\ calls.vision = 1 /\ calls.frames = loc.photo_paths[1]

\* ---------------------------------------------------------------------- C36

\* C36: no temporary file made outside the workspace is left on disk once its
\* maker is through: the credential file after the scope of get_cookies_file
\* has ended, the thumbnail fetched for proxying after download_and_upload
\* has returned or raised, and the thumbnail file of the analyzer after
\* _load_thumbnail has returned, also when writing, opening, uploading or
\* decoding the file failed.
C36_NoTempFileLeft ==
    /\ ck.pc = "done" => ~ck.exists
    /\ (fx.pc = "done" /\ fx.op \in {"load_thumbnail", "proxy"}) => ~fx.exists

\* ----------------------------------------------------------------- C37, C38

\* C37: whenever the acquisition tool has delivered a video, download()
\* returns the video result whatever became of the thumbnail, and its
\* thumbnail_url is: the owned url of the proxied source thumbnail when there
\* is a candidate and proxying succeeds; else the owned url of the uploaded
\* frame taken from the video at 1 s when extraction and upload succeed; else
\* none. The url of the source itself is never returned.
C37_ThumbnailChain ==
    last.tool.kind = "ok" =>
        LET t == last.tool.thumb
            r == last.ret
        IN  /\ r.tag = "return"
            /\ dpc = "returned" /\ dresult = Some(r.value)
            /\ r.value.video_path # None /\ r.value.photo_paths = None
            /\ r.value.thumbnail_url =
                   IF t.source /\ t.proxy_ok THEN Some(R2Url("source"))
                   ELSE IF t.extract_ok /\ t.upload_ok THEN Some(R2Url("frame"))
                   ELSE None
            /\ r.value.thumbnail_url # Some(SourceUrl)
            /\ r.value.thumbnail_url # None => r.value.thumbnail_url[1].store = "r2"

\* The attempt with cookies delivered a video whose candidate thumbnail could
\* not be proxied; the frame from the video was uploaded instead.
C37_Witness ==
    /\ dpc = "returned" /\ ydlCalls = 2 /\ last.tool.kind = "ok"
    /\ last.tool.thumb.source /\ ~last.tool.thumb.proxy_ok
    /\ dresult[1].video_path # None
    /\ dresult[1].thumbnail_url = Some(R2Url("frame"))

\* C38: one download() call starts the acquisition tool at most twice and
\* looks up credentials at most once; the first start is without a cookie
\* file; a second start is made only when the first one failed and a lookup
\* has been made, and it carries the cookie file.
C38_AtMostTwoAttempts ==
    /\ [](/\ ydlCalls <= 2 /\ lookups <= 1
          /\ ydlCalls = 1 => (last.cookie = None /\ last.opts.cookiefile = None)
          /\ ydlCalls = 2 =>
                (lookups = 1 /\ last.cookie # None /\ last.opts.cookiefile = last.cookie))
    /\ [][ydlCalls' = 2 =>
             (ydlCalls = 2 \/ (ydlCalls = 1 /\ last.ret.tag = "raise" /\ last.cookie = None
                               /\ lookups = 1 /\ cookie_file # None
                               /\ last'.cookie = cookie_file))]_vars

\* The second start, with the cookie file, after a first one that failed for
\* a sign-in demand.
C38_Witness ==
    /\ ydlCalls = 2 /\ lookups = 1 /\ last.cookie = Some("cookies.txt")
    /\ last.opts.cookiefile = Some("cookies.txt")
    /\ dpc \in {"returned", "raised"}

\* ---------------------------------------------------------------------- C39

\* C39: in the active-mode worker a job id whose processing has failed (the
\* input was rejected, the pipeline raised, or the submission of the result
\* failed) is in processed_failures from then on and until the 24-hour reset
\* clears the set; while it is there the job is neither processed nor
\* submitted again; and the only request the worker makes about a job is the
\* submission of the result of a completed run, so that a failure is never
\* reported to the backend.
C39_FailedJobsSkippedSilently ==
    /\ [](LET w == host.worker IN
          /\ w.failed \subseteq w.processed_failures
          /\ w.pc \in {"none", "created", "poll", "job", "submit", "sleep", "cancelled"}
          /\ w.pc \in {"job", "submit"} =>
                (w.jobs # <<>> /\ w.jobs[1].job_id \notin w.failed)
          /\ w.pc = "submit" => w.last_run = "completed")
    /\ [][\/ host.worker.processed_failures \subseteq host'.worker.processed_failures
          \/ /\ host.worker.pc = "sleep" /\ host'.worker.pc = "poll"
             /\ host'.worker.processed_failures = {}]_vars

\* A poll has brought a job that had failed before, and the job was passed
\* over; the other job of the poll is being processed.
C39_Witness ==
    /\ host.worker.pc = "job" /\ host.worker.skipped
    /\ host.worker.processed_failures = {1}
    /\ host.worker.jobs[1].job_id = 2

\* ---------------------------------------------------------------------- C40

\* C40: run_incremental_analysis hands the vision client no frame whose index
\* is in excluded_frame_indices, and no index it reports in frame_indices is
\* one of the excluded indices.
C40_ExcludedFramesLeftOut ==
    (fx.pc = "done" /\ fx.op = "incremental") =>
        /\ \A k \in DOMAIN fx.out.analyzed : k \notin fx.excluded_frame_indices
        /\ fx.out.ret.tag = "return" =>
               \A k \in DOMAIN fx.out.ret.value.metadata.meta.video_info.frame_indices :
                   fx.out.ret.value.metadata.meta.video_info.frame_indices[k]
                       \notin fx.excluded_frame_indices

====
